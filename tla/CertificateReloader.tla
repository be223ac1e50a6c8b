-------------------------- MODULE CertificateReloader --------------------------
(***************************************************************************)
(* CertificateReloader of tlscertificate.go: the serving certificate, read *)
(* once at start and again whenever the "..data" link of the mounted       *)
(* Secret is seen to change.                                               *)
(*                                                                         *)
(* The kubelet publishes version after version of the pair of files by     *)
(* replacing the link; the files are read one after the other, so a        *)
(* replacement may fall between them.  Notifications wait in the inotify   *)
(* queue, which drops them and reports an overflow when it is full.  A     *)
(* pair loads when its certificate is for its key; a file that cannot be   *)
(* parsed is one that matches nothing.                                     *)
(***************************************************************************)
EXTENDS Naturals, Sequences, Functions

CONSTANTS
    Keys,           \* private keys
    Histories,      \* the sequences of pairs the kubelet may publish
    QueueLimit,     \* notifications the kernel keeps
    MaxRestarts     \* bound: ends of the process

(* crt is the key the certificate was issued for.                          *)
Pair == [crt : Keys, key : Keys]

ASSUME HistoriesAssumption == Histories \subseteq Seq(Pair) \ {<<>>}
ASSUME LimitsAssumption == QueueLimit \in Nat \ {0} /\ MaxRestarts \in Nat

VARIABLES
    published,      \* the pairs, in the order of their publication
    disk,           \* index of the pair the link leads to
    queue,          \* notifications not yet read
    pc,             \* where the loading of a pair is
    read,           \* the versions of the two files read last
    cert,           \* the versions being served; NoCert before the first load
    missed,         \* history: the last swap leaves no trace for the watcher
    restarts        \* counter for the bound

reloaderVars == <<pc, read, cert>>
vars == <<published, disk, queue, reloaderVars, missed, restarts>>

Version == [crt : Nat, key : Nat]
NoCert  == [crt |-> 0, key |-> 0]

Serving == cert # NoCert

Watching == Serving /\ pc # "watch"

(* tls.LoadX509KeyPair accepts the two files.                              *)
Loads(v) == published[v.crt].crt = published[v.key].key

Current == [crt |-> disk, key |-> disk]

TypeOK ==
    /\ published \in Histories
    /\ disk \in 1..Len(published)
    /\ queue \in Seq({"data", "other", "overflow"})
    /\ Len(queue) <= QueueLimit + 1
    /\ pc \in {"crt", "key", "pair", "watch", "idle"}
    /\ read \in Version /\ cert \in Version
    /\ missed \in BOOLEAN
    /\ restarts \in 0..MaxRestarts

Init ==
    /\ published \in Histories
    /\ disk = 1
    /\ queue = <<>>
    /\ pc = "crt"
    /\ read = NoCert /\ cert = NoCert
    /\ missed = FALSE
    /\ restarts = 0

-----------------------------------------------------------------------------
(* Loading a pair: NewCertificateReloader and Reload *)

(* What was missed so far is made up for: the newest files are read.       *)
ReadCert ==
    /\ pc = "crt"
    /\ read' = [read EXCEPT !.crt = disk]
    /\ pc' = "key"
    /\ missed' = FALSE
    /\ UNCHANGED <<published, disk, queue, cert, restarts>>

ReadKey ==
    /\ pc = "key"
    /\ read' = [read EXCEPT !.key = disk]
    /\ pc' = "pair"
    /\ UNCHANGED <<published, disk, queue, cert, missed, restarts>>

(* Mutant of Install: the pair is not checked before it is served.         *)
InstallUnchecked ==
    /\ pc = "pair"
    /\ cert' = read
    /\ pc' = IF Serving THEN "idle" ELSE "watch"
    /\ UNCHANGED <<published, disk, queue, read, missed, restarts>>

Install ==
    /\ pc = "pair"
    /\ Loads(read)
    /\ cert' = read
    /\ pc' = IF Serving THEN "idle" ELSE "watch"
    /\ UNCHANGED <<published, disk, queue, read, missed, restarts>>

(* Mutant of KeepOld: the pair of the first load takes the place of one    *)
(* that does not load.                                                     *)
FallBack ==
    /\ pc = "pair"
    /\ ~Loads(read)
    /\ Serving
    /\ cert' = [crt |-> 1, key |-> 1]
    /\ pc' = "idle"
    /\ UNCHANGED <<published, disk, queue, read, missed, restarts>>

(* Mutant of KeepOld: the watcher returns on an error.                     *)
GiveUp == pc = "pair" /\ ~Loads(read) /\ Serving /\ UNCHANGED vars

KeepOld ==
    /\ pc = "pair"
    /\ ~Loads(read)
    /\ Serving
    /\ pc' = "idle"
    /\ UNCHANGED <<published, disk, queue, read, cert, missed, restarts>>

-----------------------------------------------------------------------------
(* watchCertificate *)

Watch ==
    /\ pc = "watch"
    /\ pc' = "idle"
    /\ UNCHANGED <<published, disk, queue, read, cert, missed, restarts>>

(* Mutant of TakeEvent: it reads all that has arrived, for one reload.     *)
TakeHead ==
    /\ pc = "idle"
    /\ queue # <<>>
    /\ pc' = IF Head(queue) = "data" THEN "crt" ELSE "idle"
    /\ queue' = <<>>
    /\ UNCHANGED <<published, disk, read, cert, missed, restarts>>

(* Only "..data" causes a reload; an overflow is logged and that is all.   *)
TakeEvent ==
    /\ pc = "idle"
    /\ queue # <<>>
    /\ pc' = IF Head(queue) = "data" THEN "crt" ELSE "idle"
    /\ queue' = Tail(queue)
    /\ UNCHANGED <<published, disk, read, cert, missed, restarts>>

-----------------------------------------------------------------------------
(* The process ends: a pair that does not load at start, a watch that      *)
(* cannot be set up, or anything else.  The container is started again.    *)

Restart ==
    /\ pc' = "crt"
    /\ read' = NoCert /\ cert' = NoCert
    /\ queue' = <<>>
    /\ UNCHANGED <<published, disk, missed>>

StartFails ==
    /\ pc = "pair"
    /\ ~Loads(read)
    /\ ~Serving
    /\ Restart
    /\ UNCHANGED restarts

Crash ==
    /\ restarts < MaxRestarts
    /\ Restart
    /\ restarts' = restarts + 1

-----------------------------------------------------------------------------
(* The kubelet and the kernel *)

(* Mutant of Notify: the queue has no limit.                               *)
NotifyAlways(event) == Append(queue, event)

(* Notify(event): the queue after the kernel was told of event.            *)
Notify(event) ==
    CASE Len(queue) < QueueLimit -> Append(queue, event)
      [] Len(queue) = QueueLimit -> Append(queue, "overflow")
      [] OTHER -> queue

(* A swap leaves no trace when it falls between the first load and the     *)
(* watch, or on a queue that is full of other events.                      *)
Unnoticed ==
    IF Watching
    THEN Len(queue) >= QueueLimit /\ "data" \notin Range(queue)
    ELSE pc # "crt"

Swap ==
    /\ disk < Len(published)
    /\ disk' = disk + 1
    /\ queue' = IF Watching THEN Notify("data") ELSE queue
    /\ missed' = (missed \/ Unnoticed)
    /\ UNCHANGED <<published, reloaderVars, restarts>>

(* A change of another entry of the directory, as the kubelet makes before *)
(* and after it swaps the link.                                            *)
OtherChange ==
    /\ Watching
    /\ Len(queue) <= QueueLimit
    /\ queue' = Notify("other")
    /\ UNCHANGED <<published, disk, reloaderVars, missed, restarts>>

-----------------------------------------------------------------------------
Reloader == ReadCert \/ ReadKey \/ Install \/ KeepOld \/ Watch \/ TakeEvent \/ StartFails

Next == Reloader \/ Crash \/ Swap \/ OtherChange

(* The watcher is a goroutine that is never blocked for good: each read    *)
(* returns, the lock is only held to copy a pointer.                       *)
Spec == Init /\ [][Next]_vars /\ WF_vars(Reloader)

-----------------------------------------------------------------------------
(* Properties *)

(* Whatever swap falls between the two reads, a handshake is never given a *)
(* certificate with another certificate's key.                             *)
ServedPairMatches == Serving => Loads(cert)

(* With no "..data" notification left to read, the newest pair is the one  *)
(* that is served, unless it does not load or its swap went unnoticed.     *)
QuietMeansCurrent ==
    /\ pc = "idle" /\ "data" \notin Range(queue)
    /\ ~missed /\ Loads(Current)
    => cert = Current

(* A process never goes back to an older certificate or key.               *)
NeverOlder ==
    [][Serving /\ cert' # NoCert => cert'.crt >= cert.crt /\ cert'.key >= cert.key]_vars

(* The last pair to be published, if it loads and its swap was noticed, is *)
(* served in the end.                                                      *)
LastPairIsServed ==
    disk = Len(published) /\ Loads(Current) /\ ~missed ~> cert = Current

-----------------------------------------------------------------------------
(* The inductive invariant behind ServedPairMatches, QuietMeansCurrent and *)
(* NeverOlder                                                              *)

Loaded == 1..disk

(* Files are read after those that are served were, and none is newer than *)
(* the link.                                                               *)
Ordered ==
    /\ pc \in {"watch", "idle"} => Serving
    /\ Serving => cert.crt \in Loaded /\ cert.key \in Loaded
    /\ pc \in {"key", "pair"} => read.crt \in Loaded /\ cert.crt <= read.crt
    /\ pc = "pair" => read.key \in Loaded /\ cert.key <= read.key

(* What the watcher will not be told of again has been read already.       *)
Fresh ==
    "data" \notin Range(queue) /\ ~missed =>
        /\ pc = "key" => read.crt = disk
        /\ pc = "pair" => read = Current
        /\ pc \in {"watch", "idle"} /\ Loads(Current) => cert = Current

IInv == TypeOK /\ Ordered /\ ServedPairMatches /\ Fresh
=============================================================================
