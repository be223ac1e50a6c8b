--------------------------- MODULE MCImageRegistry ----------------------------
(***************************************************************************)
(* ImageRegistry: one tag that is pushed twice, first a single image, then *)
(* an index of two platforms, asked for by two cacheable containers and    *)
(* one with PullPolicy Always; a private image; a name nobody can parse.   *)
(***************************************************************************)
EXTENDS ImageRegistry

MCImages == {"app:1", "private:1", "App:1"}

MCKinds == [i \in MCImages |-> IF i = "App:1" THEN "unparsable" ELSE "fixed"]

MCManifests ==
    [i \in MCImages |->
        CASE i = "app:1"     -> << <<"v1">>, <<"v2-amd64", "v2-arm64">> >>
          [] i = "private:1" -> << <<"p1">> >>
          [] i = "App:1"     -> << <<"a1">> >>]

MCAccepts ==
    [i \in MCImages |-> IF i = "private:1" THEN {"operator"}
                        ELSE {"pod", "operator", "cloud"}]

Container(p, i, a, s) == [replica |-> p, image |-> i, always |-> a, ownSecret |-> s]

MCCalls ==
    [first  |-> Container("a", "app:1", FALSE, FALSE),
     second |-> Container("a", "app:1", FALSE, TRUE),
     always |-> Container("a", "app:1", TRUE, FALSE),
     other  |-> Container("b", "private:1", FALSE, FALSE),
     typo   |-> Container("b", "App:1", FALSE, FALSE)]

MCRequests == DOMAIN MCCalls
MCUnlucky  == {"first"}
MCReplicas == {"a", "b"}
=============================================================================
