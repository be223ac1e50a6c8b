------------------------------ MODULE MCWebhook -------------------------------
(***************************************************************************)
(* Webhook with one review of any sample, and with three concurrent ones.  *)
(***************************************************************************)
EXTENDS Webhook, TLC

Value(slot, form, flaw) ==
    [slot |-> slot, form |-> form, flaw |-> flaw, writes |-> FALSE,
     resolved |-> FALSE, children |-> {}]
Plain     == Value("data", "none", "none")
Whole     == Value("data", "whole", "none")
Inline    == Value("data", "inline", "none")
Generated == [Whole EXCEPT !.writes = TRUE]
Auth(form, flaw) == Value("auth", form, flaw)
Container(slot, children) ==
    [Value(slot, "none", "none") EXCEPT !.children = children]

Review(kind, object) ==
    [kind |-> kind, object |-> object, skip |-> FALSE, badAddress |-> FALSE,
     badRole |-> FALSE, dryRun |-> FALSE, tlsSecret |-> FALSE, account |-> "none"]

Secrets ==
    {[a |-> Plain], [a |-> Inline], [a |-> Inline, b |-> Plain, c |-> Generated],
     [hub |-> Auth("whole", "none"), quay |-> Auth("none", "none"), a |-> Whole],
     [hub |-> Auth("whole", "parts"), a |-> Whole],
     [hub |-> Auth("whole", "none"), quay |-> Auth("none", "encoding")],
     [json |-> Auth("none", "encoding"), a |-> Whole]}

ConfigMaps ==
    {[a |-> Plain, b |-> Value("binary", "none", "none")],
     [a |-> Whole, b |-> Value("binary", "whole", "none")],
     [a |-> Inline, b |-> Value("binary", "whole", "encoding")]}

Nested ==
    [root |-> Container("map", {"name", "list", "size"}),
     name |-> Inline, size |-> Value("other", "none", "none"),
     list |-> Container("slice", {"item", "map"}),
     item |-> Plain, map |-> Container("map", {"deep"}), deep |-> Generated]

NoReference == [root |-> Container("map", {"name"}), name |-> Plain]

Odd == Review("secret", [a |-> Whole])

MCSamples ==
    {Review("secret", o) : o \in Secrets}
      \cup {Review("configmap", o) : o \in ConfigMaps}
      \cup {[Review("object", Nested) EXCEPT !.tlsSecret = TRUE],
            Review("object", NoReference),
            Review("pod", [a |-> Whole]), Review("other", [a |-> Whole]),
            [Odd EXCEPT !.skip = TRUE, !.badAddress = TRUE],
            [Odd EXCEPT !.badRole = TRUE],
            [Odd EXCEPT !.account = "bare"],
            [Odd EXCEPT !.account = "secret", !.tlsSecret = TRUE]}

Concurrent ==
    {[Odd EXCEPT !.account = "bare", !.tlsSecret = TRUE],
     [Odd EXCEPT !.account = "secret"],
     Review("configmap", [a |-> Plain])}

Symmetry == Permutations(Reviews)

DryRuns == {[s EXCEPT !.dryRun = TRUE] : 
        s \in {s \in MCSamples : s.kind = "secret" /\ s.account = "none"}}
=============================================================================
