----------------------- MODULE CertificateReloaderProofs -----------------------
(***************************************************************************)
(* What CertificateReloader serves, for every history of published pairs,  *)
(* every limit of the kernel's queue and every number of restarts.         *)
(***************************************************************************)
EXTENDS CertificateReloader, SequenceTheorems, TLAPS

-----------------------------------------------------------------------------
(* Facts about the notification queue *)

Events == {"data", "other", "overflow"}

(* Notify keeps the queue within one element of its limit, and a "data"    *)
(* notification is in the new queue when it was in the old one or is the   *)
(* one that found room.                                                    *)
LEMMA NotifyFacts ==
    ASSUME queue \in Seq(Events), Len(queue) <= QueueLimit + 1,
           QueueLimit \in Nat, NEW event \in Events
    PROVE  /\ Notify(event) \in Seq(Events)
           /\ Len(Notify(event)) <= QueueLimit + 1
           /\ "data" \in Range(queue) => "data" \in Range(Notify(event))
           /\ event = "data" /\ Len(queue) < QueueLimit =>
                    "data" \in Range(Notify(event))
<1>1. \A e \in Events :
        /\ Append(queue, e) \in Seq(Events)
        /\ Len(Append(queue, e)) = Len(queue) + 1
        /\ \A i \in 1..Len(queue) : Append(queue, e)[i] = queue[i]
        /\ Append(queue, e)[Len(queue) + 1] = e
  OBVIOUS
<1>2. \A e \in Events : Range(Append(queue, e)) = Range(queue) \cup {e}
  BY <1>1 DEF Range
<1>3. "overflow" \in Events
  BY DEF Events
<1>4. Len(queue) \in Nat
  OBVIOUS
<1>5. CASE Len(queue) < QueueLimit
  <2>1. Notify(event) = Append(queue, event)
    BY <1>4, <1>5 DEF Notify
  <2> QED BY <1>1, <1>2, <1>4, <1>5, <2>1
<1>6. CASE Len(queue) = QueueLimit
  <2>1. Notify(event) = Append(queue, "overflow")
    BY <1>4, <1>6 DEF Notify
  <2> QED BY <1>1, <1>2, <1>3, <1>4, <1>6, <2>1
<1>7. CASE Len(queue) > QueueLimit
  <2>1. Notify(event) = queue
    BY <1>4, <1>7 DEF Notify
  <2> QED BY <1>4, <1>7, <2>1
<1> QED BY <1>4, <1>5, <1>6, <1>7

(* Taking the head loses no other notification.                            *)
LEMMA TailFacts ==
    ASSUME queue \in Seq(Events), queue # <<>>
    PROVE  /\ Tail(queue) \in Seq(Events)
           /\ Len(Tail(queue)) = Len(queue) - 1
           /\ Head(queue) # "data" /\ "data" \in Range(queue) =>
                    "data" \in Range(Tail(queue))
<1>1. /\ Tail(queue) \in Seq(Events)
      /\ Len(queue) \in Nat \ {0}
      /\ Len(Tail(queue)) = Len(queue) - 1
      /\ \A i \in 1..Len(Tail(queue)) : Tail(queue)[i] = queue[i + 1]
      /\ Head(queue) = queue[1]
  OBVIOUS
<1>2. ASSUME Head(queue) # "data", "data" \in Range(queue)
      PROVE  "data" \in Range(Tail(queue))
  <2>1. PICK i \in 1..Len(queue) : queue[i] = "data"
    BY <1>2 DEF Range
  <2>2. i # 1
    BY <1>1, <1>2, <2>1
  <2>3. i - 1 \in 1..Len(Tail(queue)) /\ Tail(queue)[i - 1] = "data"
    BY <1>1, <2>1, <2>2
  <2>4. DOMAIN Tail(queue) = 1..Len(Tail(queue))
    BY <1>1
  <2> QED BY <2>3, <2>4 DEF Range
<1> QED BY <1>1, <1>2

-----------------------------------------------------------------------------
(* The types *)

(* The invariant holds at first: nothing has been read.                    *)
LEMMA InitInv == Init => IInv
<1> SUFFICES ASSUME Init PROVE IInv
  OBVIOUS
<1>1. published \in Seq(Pair) /\ published # <<>>
  BY HistoriesAssumption DEF Init
<1>2. disk \in 1..Len(published)
  BY <1>1 DEF Init
<1>3. queue \in Seq(Events) /\ Len(queue) = 0
  BY DEF Init
<1>4. NoCert \in Version
  BY DEF NoCert, Version
<1>5. TypeOK
  <2>1. queue \in Seq({"data", "other", "overflow"}) /\ Len(queue) <= QueueLimit + 1
    BY <1>3, LimitsAssumption DEF Events
  <2>2. read \in Version /\ cert \in Version /\ missed \in BOOLEAN
    BY <1>4 DEF Init
  <2>3. restarts \in 0..MaxRestarts /\ published \in Histories
    BY LimitsAssumption DEF Init
  <2>4. pc \in {"crt", "key", "pair", "watch", "idle"}
    BY DEF Init
  <2> QED BY <1>2, <2>1, <2>2, <2>3, <2>4 DEF TypeOK
<1>6. pc = "crt" /\ ~Serving
  BY DEF Init, Serving
<1>7. Ordered
  BY <1>6 DEF Ordered
<1>8. Fresh
  BY <1>6 DEF Fresh
<1>9. ServedPairMatches
  BY <1>6 DEF ServedPairMatches
<1> QED BY <1>5, <1>7, <1>8, <1>9 DEF IInv

(* Every step keeps the types.                                            *)
LEMMA TypeStep == TypeOK /\ [Next]_vars => TypeOK'
<1> SUFFICES ASSUME TypeOK, [Next]_vars PROVE TypeOK'
  OBVIOUS
<1> USE LimitsAssumption
<1>0. disk \in Nat /\ Len(published) \in Nat
  BY HistoriesAssumption DEF TypeOK
<1>1. CASE ReadCert BY <1>0, <1>1 DEF TypeOK, ReadCert, Version
<1>2. CASE ReadKey BY <1>0, <1>2 DEF TypeOK, ReadKey, Version
<1>3. CASE Install BY <1>3 DEF TypeOK, Install
<1>4. CASE KeepOld BY <1>4 DEF TypeOK, KeepOld
<1>5. CASE Watch BY <1>5 DEF TypeOK, Watch
<1>6. CASE TakeEvent
  <2>1. queue' \in Seq(Events) /\ Len(queue') = Len(queue) - 1 /\ Len(queue) \in Nat
    BY <1>6, TailFacts DEF TypeOK, TakeEvent, Events
  <2> QED BY <1>6, <2>1 DEF TypeOK, TakeEvent, Events
<1>7. CASE StartFails BY <1>7 DEF TypeOK, StartFails, Restart, NoCert, Version
<1>8. CASE Crash BY <1>8 DEF TypeOK, Crash, Restart, NoCert, Version
<1>9. CASE Swap
  <2>1. queue' \in Seq(Events) /\ Len(queue') <= QueueLimit + 1
    BY <1>9, NotifyFacts DEF TypeOK, Swap, Events
  <2>2. missed' \in BOOLEAN
    BY <1>9 DEF TypeOK, Swap, Unnoticed
  <2>3. disk' \in 1..Len(published')
    BY <1>0, <1>9 DEF TypeOK, Swap
  <2> QED BY <1>9, <2>1, <2>2, <2>3 DEF TypeOK, Swap, Events, reloaderVars
<1>10. CASE OtherChange
  <2>1. queue' \in Seq(Events) /\ Len(queue') <= QueueLimit + 1
    BY <1>10, NotifyFacts DEF TypeOK, OtherChange, Events
  <2> QED BY <1>10, <2>1 DEF TypeOK, OtherChange, Events, reloaderVars
<1>11. CASE UNCHANGED vars BY <1>11 DEF TypeOK, vars, reloaderVars
<1> QED BY <1>1, <1>2, <1>3, <1>4, <1>5, <1>6, <1>7, <1>8, <1>9, <1>10, <1>11
        DEF Next, Reloader

-----------------------------------------------------------------------------
(* The order of reads *)

(* Every step keeps the served pair no newer than the files read, and     *)
(* those no newer than the link.                                           *)
LEMMA OrderStep == TypeOK /\ Ordered /\ [Next]_vars => Ordered'
<1> SUFFICES ASSUME TypeOK, Ordered, [Next]_vars PROVE Ordered'
  OBVIOUS
<1>0. disk \in Nat \ {0} /\ cert.crt \in Nat /\ cert.key \in Nat
  BY HistoriesAssumption DEF TypeOK, Version
<1> USE DEF Ordered, Serving, Loaded, NoCert
<1>1. CASE ReadCert
  <2>1. read'.crt = disk
    BY <1>1 DEF ReadCert, TypeOK, Version
  <2>2. cert.crt <= disk
    BY <1>0
  <2> QED BY <1>0, <1>1, <2>1, <2>2 DEF ReadCert
<1>2. CASE ReadKey
  <2>1. read'.key = disk /\ read'.crt = read.crt
    BY <1>2 DEF ReadKey, TypeOK, Version
  <2>2. cert.key <= disk
    BY <1>0
  <2> QED BY <1>0, <1>2, <2>1, <2>2 DEF ReadKey
<1>3. CASE Install
  <2>1. cert' = read /\ disk' = disk /\ pc' \in {"watch", "idle"}
    BY <1>3 DEF Install
  <2>2. read.crt \in 1..disk /\ read.key \in 1..disk /\ read # NoCert
    BY <1>0, <1>3 DEF Install
  <2> QED BY <2>1, <2>2
<1>4. CASE KeepOld BY <1>4 DEF KeepOld
<1>5. CASE Watch BY <1>5 DEF Watch
<1>6. CASE TakeEvent BY <1>6 DEF TakeEvent
<1>7. CASE StartFails BY <1>7 DEF StartFails, Restart
<1>8. CASE Crash BY <1>8 DEF Crash, Restart
<1>9. CASE Swap BY <1>0, <1>9 DEF Swap, reloaderVars
<1>10. CASE OtherChange BY <1>10 DEF OtherChange, reloaderVars
<1>11. CASE UNCHANGED vars BY <1>11 DEF vars, reloaderVars
<1> QED BY <1>1, <1>2, <1>3, <1>4, <1>5, <1>6, <1>7, <1>8, <1>9, <1>10, <1>11
        DEF Next, Reloader

-----------------------------------------------------------------------------
(* The pair that is served *)

(* Only a pair that loads, or none, takes the place of the served one.     *)
LEMMA MatchStep == ServedPairMatches /\ [Next]_vars => ServedPairMatches'
<1> SUFFICES ASSUME ServedPairMatches, [Next]_vars PROVE ServedPairMatches'
  OBVIOUS
<1>1. published' = published
  BY DEF Next, Reloader, ReadCert, ReadKey, Install, KeepOld, Watch, TakeEvent,
         StartFails, Crash, Restart, Swap, OtherChange, vars
<1>2. \/ cert' = cert
      \/ cert' = NoCert
      \/ cert' = read /\ Loads(read)
  BY DEF Next, Reloader, ReadCert, ReadKey, Install, KeepOld, Watch, TakeEvent,
         StartFails, Crash, Restart, Swap, OtherChange, vars, reloaderVars
<1> QED BY <1>1, <1>2 DEF ServedPairMatches, Serving, Loads

(* A swap that is noticed leaves a notification, and none is dropped        *)
(* without a reload.                                                       *)
LEMMA FreshStep == TypeOK /\ Ordered /\ Fresh /\ [Next]_vars => Fresh'
<1> SUFFICES ASSUME TypeOK, Ordered, Fresh, [Next]_vars,
                    "data" \notin Range(queue'), ~missed'
             PROVE  /\ pc' = "key" => read'.crt = disk'
                    /\ pc' = "pair" => read' = Current'
                    /\ pc' \in {"watch", "idle"} /\ Loads(Current)' =>
                            cert' = Current'
  BY DEF Fresh
<1> USE DEF Fresh, Current, Loads
<1>1. CASE ReadCert BY <1>1 DEF ReadCert, TypeOK, Version
<1>2. CASE ReadKey BY <1>2 DEF ReadKey, TypeOK, Version
<1>3. CASE Install BY <1>3 DEF Install
<1>4. CASE KeepOld BY <1>4 DEF KeepOld
<1>5. CASE Watch BY <1>5 DEF Watch
<1>6. CASE TakeEvent
  <2>1. CASE Head(queue) = "data" BY <1>6, <2>1 DEF TakeEvent
  <2>2. CASE Head(queue) # "data"
    <3>1. "data" \notin Range(queue)
      BY <1>6, <2>2, TailFacts DEF TakeEvent, TypeOK, Events
    <3> QED BY <1>6, <2>2, <3>1 DEF TakeEvent
  <2> QED BY <2>1, <2>2
<1>7. CASE StartFails BY <1>7 DEF StartFails, Restart
<1>8. CASE Crash BY <1>8 DEF Crash, Restart
<1>9. CASE Swap
  <2>1. ~missed /\ ~Unnoticed /\ pc' = pc
    BY <1>9 DEF Swap, reloaderVars
  <2>2. CASE Watching
    <3>1. "data" \in Range(Notify("data"))
      <4>1. Len(queue) < QueueLimit \/ "data" \in Range(queue)
        BY <2>1, <2>2, LimitsAssumption DEF Unnoticed, TypeOK
      <4> QED BY <4>1, NotifyFacts, LimitsAssumption DEF TypeOK, Events
    <3> QED BY <1>9, <2>2, <3>1 DEF Swap
  <2>3. CASE ~Watching
    <3>1. pc = "crt"
      BY <2>1, <2>3 DEF Unnoticed
    <3> QED BY <2>1, <3>1
  <2> QED BY <2>2, <2>3
<1>10. CASE OtherChange
  <2>1. "data" \notin Range(queue)
    BY <1>10, NotifyFacts, LimitsAssumption DEF OtherChange, TypeOK, Events
  <2> QED BY <1>10, <2>1 DEF OtherChange, reloaderVars
<1>11. CASE UNCHANGED vars BY <1>11 DEF vars, reloaderVars
<1> QED BY <1>1, <1>2, <1>3, <1>4, <1>5, <1>6, <1>7, <1>8, <1>9, <1>10, <1>11
        DEF Next, Reloader

-----------------------------------------------------------------------------
(* The theorems *)

(* The invariant is inductive.                                             *)
THEOREM Invariance == Spec => []IInv
<1>1. IInv /\ [Next]_vars => IInv'
  BY TypeStep, OrderStep, MatchStep, FreshStep DEF IInv
<1> QED BY InitInv, <1>1, PTL DEF Spec

(* The reloader's variables keep their types and its queue its bound.      *)
THEOREM TypeCorrect == Spec => []TypeOK
<1>1. IInv => TypeOK BY DEF IInv
<1> QED BY <1>1, Invariance, PTL

(* A handshake never gets a certificate with a key it was not issued for.  *)
THEOREM ServedPairsMatch == Spec => []ServedPairMatches
<1>1. IInv => ServedPairMatches BY DEF IInv
<1> QED BY <1>1, Invariance, PTL

(* When the watcher has nothing left to read, the newest pair is served    *)
(* unless it does not load or its swap could not be noticed.               *)
THEOREM QuietReloaderIsCurrent == Spec => []QuietMeansCurrent
<1>1. IInv => QuietMeansCurrent BY DEF IInv, Fresh, QuietMeansCurrent
<1> QED BY <1>1, Invariance, PTL

(* As long as the process lives, certificates and keys only get newer.     *)
THEOREM CertificatesNeverGetOlder == Spec => NeverOlder
<1>1. ASSUME IInv, [Next]_vars, Serving, cert' # NoCert
      PROVE  cert'.crt >= cert.crt /\ cert'.key >= cert.key
  <2>0. cert.crt \in Nat /\ cert.key \in Nat /\ disk \in Nat
    BY <1>1, HistoriesAssumption DEF IInv, TypeOK, Version
  <2>1. CASE Install
    BY <1>1, <2>0, <2>1 DEF Install, IInv, Ordered, Loaded
  <2>2. CASE cert' = cert
    BY <2>0, <2>2
  <2> QED
    BY <1>1, <2>1, <2>2
       DEF Next, Reloader, ReadCert, ReadKey, KeepOld, Watch, TakeEvent,
           StartFails, Crash, Restart, Swap, OtherChange, vars, reloaderVars
<1>2. IInv /\ [Next]_vars =>
        [Serving /\ cert' # NoCert => cert'.crt >= cert.crt /\ cert'.key >= cert.key]_vars
  BY <1>1
<1> QED BY <1>2, Invariance, PTL DEF Spec, NeverOlder
=============================================================================
