--------------------------- MODULE DeliveryProofs ---------------------------
(***************************************************************************)
(* Delivery keeps its inductive invariant, for any number of names, calls, *)
(* urls and changes.  What a call has read is old when it is used; what    *)
(* holds is that it was so since the call began, and since only grows.     *)
(***************************************************************************)
EXTENDS Delivery, TLAPS

USE ConstantsAssumption

LEMMA InitInv == Init => Inv
<1> SUFFICES ASSUME Init PROVE Inv
    OBVIOUS
<1>1. TypeOK
    BY DEF Init, TypeOK, CallsOK, NoCall, Places, NoProbe, Marks
<1>2. SinceHasNow /\ UrlWasRead /\ ContactIsRegistered /\ RefusalIsRight
    BY DEF Init, SinceHasNow, UrlWasRead, ContactIsRegistered, RefusalIsRight, InFlight,
           NoCall, AfterAdmission
<1> QED
    BY <1>1, <1>2 DEF Inv

\* A change of the registry is added to the history of every call on its name.
LEMMA BecomesInv ==
    ASSUME Inv, NEW n \in Names, NEW e \in Entry \cup {None}, Becomes(n, e),
           healthy' \in [Names -> Marks], changes' \in 0..MaxChanges
    PROVE  Inv'
<1> USE DEF Inv, TypeOK, Becomes
<1>1. since' \in [Calls -> SUBSET (Entry \cup {None})]
    OBVIOUS
<1>2. peers' \in [Names -> Entry \cup {None}]
    OBVIOUS
<1>3. TypeOK'
    BY <1>1, <1>2 DEF CallsOK, prober
<1>4. \A c \in Calls : since[c] \subseteq since'[c]
    OBVIOUS
<1>5. SinceHasNow'
    BY DEF SinceHasNow, InFlight, CallsOK
<1>6. UrlWasRead'
    BY <1>4 DEF UrlWasRead, HasUrl
<1>7. ContactIsRegistered'
    BY <1>4 DEF ContactIsRegistered, HasUrl, HadAccepted
<1>8. RefusalIsRight'
    BY <1>4 DEF RefusalIsRight
<1> QED
    BY <1>3, <1>5, <1>6, <1>7, <1>8

LEMMA WorldInv ==
    ASSUME Inv, WorldStep
    PROVE  Inv'
<1>1. ASSUME Changes PROVE changes' \in 0..MaxChanges
    BY <1>1 DEF Changes, Inv, TypeOK
<1>2. healthy \in [Names -> Marks] /\ peers \in [Names -> Entry \cup {None}]
    BY DEF Inv, TypeOK
<1>3. ASSUME NEW n \in Names, Register(n) PROVE Inv'
    <2>1. PICK u \in Urls, s \in {"pending", "accepted"} : Becomes(n, [url |-> u, state |-> s])
        BY <1>3 DEF Register
    <2>2. [url |-> u, state |-> s] \in Entry
        BY DEF Entry, States
    <2> QED
        BY <1>1, <1>2, <1>3, <2>1, <2>2, BecomesInv DEF Register
<1>4. ASSUME NEW n \in Names, ChangeUrl(n) PROVE Inv'
    <2>1. PICK u \in Urls : Becomes(n, [url |-> u, state |-> peers[n].state])
        BY <1>4 DEF ChangeUrl
    <2>2. [url |-> u, state |-> peers[n].state] \in Entry
        BY <1>2, <1>4 DEF Entry, ChangeUrl
    <2> QED
        BY <1>1, <1>2, <1>4, <2>1, <2>2, BecomesInv DEF ChangeUrl
<1>5. ASSUME NEW n \in Names, SetState(n) PROVE Inv'
    <2>1. PICK s \in {"accepted", "revoked"} : Becomes(n, [url |-> peers[n].url, state |-> s])
        BY <1>5 DEF SetState
    <2>2. [url |-> peers[n].url, state |-> s] \in Entry
        BY <1>2, <1>5 DEF Entry, States, SetState
    <2> QED
        BY <1>1, <1>2, <1>5, <2>1, <2>2, BecomesInv DEF SetState
<1>6. ASSUME NEW n \in Names, Remove(n) PROVE Inv'
    <2>1. healthy' \in [Names -> Marks]
        BY <1>2, <1>6 DEF Remove, Marks
    <2> QED
        BY <1>1, <1>6, <2>1, BecomesInv DEF Remove
<1>7. ASSUME /\ changes' \in 0..MaxChanges /\ open' \in SUBSET Names /\ answers' \in SUBSET Urls
             /\ UNCHANGED <<peers, healthy, calls, prober>>
      PROVE  Inv'
    BY <1>7 DEF Inv, TypeOK, CallsOK, SinceHasNow, UrlWasRead, ContactIsRegistered, RefusalIsRight,
                InFlight, HasUrl, HadAccepted, calls, prober
<1>8. ASSUME NEW n \in Names, ChannelOpens(n) \/ ChannelEnds(n) PROVE Inv'
    BY <1>1, <1>7, <1>8 DEF ChannelOpens, ChannelEnds, Inv, TypeOK
<1>9. ASSUME NEW u \in Urls, UrlChanges(u) PROVE Inv'
    BY <1>1, <1>7, <1>9 DEF UrlChanges, Inv, TypeOK
<1> QED
    BY <1>3, <1>4, <1>5, <1>6, <1>8, <1>9 DEF WorldStep

\* A step of a call keeps all but its place, after it has read the url.
LEMMA MovesInv ==
    ASSUME Inv, NEW c \in Calls, NEW p \in Places, Moves(c, p),
           call[c].at # "idle", healthy' \in [Names -> Marks],
           UNCHANGED <<world, since, prober, changes>>,
           p \notin {"idle", "called", "404"},
           call[c].at \in {"refused", "done", "gone"} => p \in {"refused", "done", "gone"},
           p \in AfterAdmission => (call[c].at \in AfterAdmission \/ HadAccepted(c)),
           p \in AfterAdmission \cup {"read", "403"} =>
                call[c].at \in AfterAdmission \cup {"read", "403"},
           p = "403" => \E e \in since[c] : ~IsAccepted(e)
    PROVE  Inv'
<1> USE DEF Inv, TypeOK, Moves
<1>1. /\ call'[c].at = p /\ call'[c].name = call[c].name /\ call'[c].url = call[c].url
      /\ \A d \in Calls \ {c} : call'[d] = call[d]
      /\ DOMAIN call' = Calls
    BY DEF CallsOK
<1>2. CallsOK'
    BY <1>1 DEF CallsOK
<1>3. TypeOK'
    BY <1>1, <1>2 DEF world, prober
<1>4. SinceHasNow'
    BY <1>1 DEF SinceHasNow, InFlight, world
<1>5. UrlWasRead'
    BY <1>1 DEF UrlWasRead, HasUrl
<1>6. ContactIsRegistered'
    BY <1>1 DEF ContactIsRegistered, UrlWasRead, HasUrl, HadAccepted
<1>7. RefusalIsRight'
    BY <1>1 DEF RefusalIsRight
<1> QED
    BY <1>3, <1>4, <1>5, <1>6, <1>7

LEMMA MarkTyped ==
    ASSUME TypeOK, NEW n \in Names, NEW ok \in BOOLEAN, Mark(n, ok)
    PROVE  healthy' \in [Names -> Marks]
BY DEF TypeOK, Mark, Marks

LEMMA CallInv ==
    ASSUME Inv, NEW c \in Calls, CallStep(c)
    PROVE  Inv'
<1> USE DEF Inv, TypeOK
<1>1. CASE Begin(c)
    <2>1. PICK n \in Names :
            /\ call' = [call EXCEPT ![c] = [at |-> "called", name |-> n, url |-> None]]
            /\ since' = [since EXCEPT ![c] = {peers[n]}]
        BY <1>1 DEF Begin
    <2>2. UNCHANGED <<world, healthy, prober, changes>>
        BY <1>1 DEF Begin
    <2>3. /\ call'[c] = [at |-> "called", name |-> n, url |-> None]
          /\ since'[c] = {peers[n]}
          /\ \A d \in Calls \ {c} : call'[d] = call[d] /\ since'[d] = since[d]
          /\ DOMAIN call' = Calls
        BY <2>1
    <2>4. since' \in [Calls -> SUBSET (Entry \cup {None})]
        BY <2>1
    <2>5. CallsOK'
        BY <2>3 DEF CallsOK, Places
    <2>6. TypeOK'
        BY <2>2, <2>3, <2>4, <2>5 DEF world, prober
    <2>7. SinceHasNow'
        BY <2>2, <2>3 DEF SinceHasNow, InFlight, world
    <2>8. UrlWasRead' /\ ContactIsRegistered' /\ RefusalIsRight'
        BY <2>3 DEF UrlWasRead, ContactIsRegistered, RefusalIsRight, HasUrl, HadAccepted,
                    AfterAdmission
    <2> QED
        BY <2>6, <2>7, <2>8
<1>2. CASE ReadUrl(c)
    <2> DEFINE n == call[c].name
    <2>1. n \in Names /\ peers[n] \in since[c] /\ peers[n] \in Entry \cup {None}
        BY <1>2 DEF ReadUrl, CallsOK, SinceHasNow, InFlight
    <2>2. /\ call'[c] = IF peers[n] = None THEN [at |-> "404", name |-> n, url |-> None]
                        ELSE [at |-> "read", name |-> n, url |-> peers[n].url]
          /\ \A d \in Calls \ {c} : call'[d] = call[d]
          /\ DOMAIN call' = Calls
          /\ UNCHANGED <<world, healthy, since, prober, changes>>
        BY <1>2 DEF ReadUrl
    <2>3. CallsOK'
        BY <2>1, <2>2 DEF CallsOK, Places, Entry
    <2>4. TypeOK'
        BY <2>2, <2>3 DEF world, prober
    <2>5. SinceHasNow'
        BY <2>1, <2>2 DEF SinceHasNow, InFlight, world
    <2>6. UrlWasRead'
        BY <2>1, <2>2 DEF UrlWasRead, HasUrl, AfterAdmission
    <2>7. ContactIsRegistered' /\ RefusalIsRight'
        BY <2>1, <2>2 DEF ContactIsRegistered, RefusalIsRight, HasUrl, HadAccepted,
                          AfterAdmission
    <2> QED
        BY <2>4, <2>5, <2>6, <2>7
<1>3. CASE ReadState(c)
    <2>1. peers[call[c].name] \in since[c]
        BY <1>3 DEF ReadState, SinceHasNow, InFlight
    <2>2. CASE IsAccepted(peers[call[c].name])
        <3>1. HadAccepted(c)
            BY <2>1, <2>2 DEF HadAccepted
        <3> QED
            BY <1>3, <2>2, <3>1, MovesInv DEF ReadState, Places, AfterAdmission
    <2>3. CASE ~IsAccepted(peers[call[c].name])
        BY <1>3, <2>1, <2>3, MovesInv DEF ReadState, Places, AfterAdmission
    <2> QED
        BY <2>2, <2>3
<1>4. CASE Refuse(c)
    BY <1>4, MovesInv DEF Refuse, Places, AfterAdmission
<1>5. CASE Choose(c)
    BY <1>5, MovesInv DEF Choose, Places, AfterAdmission
<1>6. CASE SendChannel(c)
    BY <1>6, MovesInv DEF SendChannel, Places, AfterAdmission
<1>7. CASE EndChannel(c)
    BY <1>7, MovesInv DEF EndChannel, Places, AfterAdmission
<1>8. CASE SendDirect(c)
    BY <1>8, MovesInv DEF SendDirect, Places, AfterAdmission
<1>9. CASE EndDirect(c)
    BY <1>9, MovesInv DEF EndDirect, Places, AfterAdmission
<1>10. CASE MarkPeer(c)
    <2>1. call[c].name \in Names
        BY <1>10 DEF MarkPeer, CallsOK
    <2>2. healthy' \in [Names -> Marks]
        BY <1>10, <2>1, MarkTyped DEF MarkPeer
    <2> QED
        BY <1>10, <2>2, MovesInv DEF MarkPeer, Places, AfterAdmission
<1>11. CASE Return(c)
    BY <1>11, MovesInv DEF Return, Places, AfterAdmission
<1>12. CASE Abandon(c)
    BY <1>12, MovesInv DEF Abandon, InFlight, Places, AfterAdmission
<1> QED
    BY <1>1, <1>2, <1>3, <1>4, <1>5, <1>6, <1>7, <1>8, <1>9, <1>10, <1>11, <1>12 DEF CallStep

LEMMA ProberInv ==
    ASSUME Inv, ProberStep
    PROVE  Inv'
<1> USE DEF Inv, TypeOK
<1>1. ASSUME /\ UNCHANGED <<world, calls, changes>>
             /\ healthy' \in [Names -> Marks] /\ todo' \in SUBSET Target
             /\ probe' \in {NoProbe} \cup [at : {"asked", "up", "down"}, name : Names, url : Urls]
      PROVE  Inv'
    BY <1>1 DEF world, calls, CallsOK, SinceHasNow, UrlWasRead, ContactIsRegistered, RefusalIsRight,
                InFlight, HasUrl, HadAccepted
<1>2. CASE Tick
    <2>1. todo' \in SUBSET Target
        BY <1>2 DEF Tick, IsAccepted, Target, Entry
    <2> QED
        BY <1>1, <1>2, <2>1 DEF Tick
<1>3. CASE Probe
    <2>1. PICK t \in todo :
            /\ todo' = todo \ {t}
            /\ probe' = [at |-> IF t.name \in open THEN "up" ELSE "asked",
                         name |-> t.name, url |-> t.url]
        BY <1>3 DEF Probe
    <2>2. probe' \in [at : {"asked", "up", "down"}, name : Names, url : Urls]
        BY <2>1 DEF Target
    <2> QED
        BY <1>1, <1>3, <2>1, <2>2 DEF Probe
<1>4. CASE ProbeAnswers
    <2>1. probe \in [at : {"asked", "up", "down"}, name : Names, url : Urls]
        BY <1>4 DEF ProbeAnswers, NoProbe
    <2>2. probe' \in [at : {"asked", "up", "down"}, name : Names, url : Urls]
        BY <1>4, <2>1 DEF ProbeAnswers
    <2> QED
        BY <1>1, <1>4, <2>2 DEF ProbeAnswers
<1>5. CASE ApplyHealth
    <2>1. probe \in [at : {"asked", "up", "down"}, name : Names, url : Urls]
        BY <1>5 DEF ApplyHealth, NoProbe
    <2>2. healthy' \in [Names -> Marks]
        BY <1>5, <2>1, MarkTyped DEF ApplyHealth
    <2> QED
        BY <1>1, <1>5, <2>2 DEF ApplyHealth
<1> QED
    BY <1>2, <1>3, <1>4, <1>5 DEF ProberStep

\* Every reachable state has the inductive invariant: calls of deliver go only
\* where the registry pointed since they began, and are refused only for what it
\* said since then.
THEOREM Invariant == Spec => []Inv
<1>1. ASSUME Inv, [Next]_vars PROVE Inv'
    <2>1. CASE UNCHANGED vars
        BY <1>1, <2>1 DEF vars, world, calls, prober, Inv, TypeOK, CallsOK, SinceHasNow, UrlWasRead,
                          ContactIsRegistered, RefusalIsRight, InFlight, HasUrl, HadAccepted
    <2> QED
        BY <1>1, <2>1, WorldInv, CallInv, ProberInv DEF Next
<1> QED
    BY <1>1, InitInv, PTL DEF Spec

\* deliver sends a call only to a registered url of an accepted peer.
THEOREM ContactsAreRegistered == Spec => []ContactIsRegistered
<1>1. Inv => ContactIsRegistered
    BY DEF Inv
<1> QED
    BY <1>1, Invariant, PTL

\* deliver refuses a call only for what the registry said while it ran.
THEOREM RefusalsAreRight == Spec => []RefusalIsRight
<1>1. Inv => RefusalIsRight
    BY DEF Inv
<1> QED
    BY <1>1, Invariant, PTL
=============================================================================
