--------------------------- MODULE MessengerProofs ---------------------------
(***************************************************************************)
(* The messenger: who is in a room and who hears it, for any number of     *)
(* names and requests; and the ids of its messages and what its readers    *)
(* are shown, for any number of messages, readers, rotations and kills.    *)
(*                                                                         *)
(* The rooms: whoever a roster or the copy of a request names is, with the *)
(* registration that was invited, still the peer of that name, or the name *)
(* is among the exceptions (half, loose).  A copy is taken from an entry   *)
(* or a roster of which that holds, a roster grows by a copy, and a        *)
(* removal either reaches what keeps the name or makes it an exception.    *)
(*                                                                         *)
(* The ids: what a rotation takes away has a smaller id than a line that   *)
(* is in the file or sure to get there, so the highest id of the file is   *)
(* the highest there was.                                                  *)
(***************************************************************************)
EXTENDS Rooms, ChatLog, SubsequenceProofs, WellFoundedInduction

\* The room of a change stays given out.
LEMMA GivenStep ==
    ASSUME TypeOK, RoomsAreGivenOut, [Next]_vars
    PROVE  RoomsAreGivenOut'
<1> USE DEF TypeOK, RoomsAreGivenOut, Reqs
<1>1. ASSUME NEW n \in Names, EntryStep(n) PROVE RoomsAreGivenOut'
    BY <1>1, ConstantsAssumption DEF EntryStep, Register, SetState, Deregister, Delete,
       UnlistAgent, DeleteHuman, UnlistHuman, LeaveHalf, Changes, Listed, Holds, Unlist,
       IsHuman, registry, rosters, work
<1>2. ASSUME NEW r \in Rooms, DeleteRoom(r) PROVE RoomsAreGivenOut'
    BY <1>2, ConstantsAssumption DEF DeleteRoom, Changes, registry, rosters, work
<1>3. ASSUME NEW e \in Edits, EditBegins(e) PROVE RoomsAreGivenOut'
    BY <1>3, ConstantsAssumption DEF EditBegins, IsHuman, IsAccepted, registry, rosters, work
<1>4. ASSUME NEW e \in Edits, Validate(e) PROVE RoomsAreGivenOut'
    BY <1>4, ConstantsAssumption DEF Validate, IsAccepted, registry, rosters, work
<1>5. ASSUME NEW e \in Edits, Create(e) PROVE RoomsAreGivenOut'
    BY <1>5, ConstantsAssumption DEF Create, Invites, registry, rosters, work
<1>6. ASSUME NEW e \in Edits, Change(e) PROVE RoomsAreGivenOut'
    BY <1>6, ConstantsAssumption DEF Change, Invites, registry, rosters, work
<1>7. ASSUME NEW s \in Sends, SendBegins(s) PROVE RoomsAreGivenOut'
    BY <1>7, ConstantsAssumption DEF SendBegins, IsHuman, IsAccepted, registry, rosters, work
<1>8. ASSUME NEW s \in Sends, ReadRoom(s) PROVE RoomsAreGivenOut'
    BY <1>8, ConstantsAssumption DEF ReadRoom, registry, rosters, work
<1>9. ASSUME NEW s \in Sends, PickAgents(s) PROVE RoomsAreGivenOut'
    BY <1>9, ConstantsAssumption DEF PickAgents, Goes, IsAgent, IsAccepted, registry, rosters, work
<1>10. ASSUME NEW s \in Sends, DmLocal(s) PROVE RoomsAreGivenOut'
    BY <1>10, ConstantsAssumption DEF DmLocal, DmGoes, registry, rosters, work
<1>11. ASSUME NEW s \in Sends, DmPeer(s) PROVE RoomsAreGivenOut'
    BY <1>11, ConstantsAssumption DEF DmPeer, DmGoes, registry, rosters, work
<1>12. ASSUME NEW s \in Sends, RecordMessage(s) PROVE RoomsAreGivenOut'
    BY <1>12, ConstantsAssumption DEF RecordMessage, Speaks, Called, Reached, registry, rosters,
       work
<1>13. ASSUME NEW q \in Reqs, Refuse(q) \/ Leave(q) \/ Join(q) \/ Respond(q) PROVE RoomsAreGivenOut'
    BY <1>13, ConstantsAssumption DEF Refuse, Leave, Join, Respond, Ends, registry,
       rosters, work
<1>14. ASSUME NEW q \in Reqs, NEW n \in Names, CallStep(q, n) PROVE RoomsAreGivenOut'
    BY <1>14, ConstantsAssumption DEF CallStep, Ask, Deliver, Answer, Fail, Expire,
       RecordOutcome, Becomes, IsAgent, Due, registry, rosters, work
<1>15. ASSUME UNCHANGED vars PROVE RoomsAreGivenOut'
    BY <1>15, SMTT(30) DEF vars, registry, rosters, work
<1> QED
    BY <1>1, <1>2, <1>3, <1>4, <1>5, <1>6, <1>7, <1>8, <1>9, <1>10, <1>11, <1>12, <1>13, <1>14,
       <1>15 DEF Next, EntryStep, EditStep, SendStep, CallStep, Reqs

\* Every step keeps the types.
LEMMA TypeStep ==
    ASSUME TypeOK, RoomsAreGivenOut, [Next]_vars
    PROVE  TypeOK'
<1> USE DEF TypeOK, RoomsAreGivenOut, Entry, Regs, Places, Outcomes, Reqs, NoReq, NoCalls, Zero
<1>1. ASSUME NEW n \in Names, Register(n) PROVE TypeOK'
    BY <1>1, ConstantsAssumption DEF Register, Changes, registry, rosters, work
<1>2. ASSUME NEW n \in Names, SetState(n) PROVE TypeOK'
    BY <1>2, ConstantsAssumption DEF SetState, Changes, registry, rosters, work
<1>3. ASSUME NEW n \in Names, Deregister(n) PROVE TypeOK'
    BY <1>3, ConstantsAssumption DEF Deregister, Changes, Listed, Holds, registry, rosters, work
<1>4. ASSUME NEW n \in Names, Delete(n) PROVE TypeOK'
    BY <1>4, ConstantsAssumption DEF Delete, Changes, Unlist, Holds, registry, rosters, work
<1>5. ASSUME NEW n \in Names, UnlistAgent(n) PROVE TypeOK'
    BY <1>5, ConstantsAssumption DEF UnlistAgent, Changes, Unlist, registry, rosters, work
<1>6. ASSUME NEW n \in Names, DeleteHuman(n) PROVE TypeOK'
    BY <1>6, ConstantsAssumption DEF DeleteHuman, Changes, Holds, IsHuman, registry, rosters, work
<1>7. ASSUME NEW n \in Names, UnlistHuman(n) PROVE TypeOK'
    BY <1>7, ConstantsAssumption DEF UnlistHuman, Unlist, Holds, registry, rosters, work
<1>8. ASSUME NEW n \in Names, LeaveHalf(n) PROVE TypeOK'
    BY <1>8, ConstantsAssumption DEF LeaveHalf, registry, rosters, work
<1>9. ASSUME NEW r \in Rooms, DeleteRoom(r) PROVE TypeOK'
    BY <1>9, ConstantsAssumption DEF DeleteRoom, Changes, registry, rosters, work
<1>10. ASSUME NEW e \in Edits, EditBegins(e) PROVE TypeOK'
    BY <1>10, ConstantsAssumption DEF EditBegins, IsHuman, IsAccepted, registry, rosters, work
<1>11. ASSUME NEW e \in Edits, Validate(e) PROVE TypeOK'
    BY <1>11, ConstantsAssumption DEF Validate, IsAccepted, registry, rosters, work
<1>12. ASSUME NEW e \in Edits, Create(e) PROVE TypeOK'
    <2>1. req[e].room \in used /\ req[e].room \in Rooms
        BY <1>12 DEF Create
    <2>2. live' \subseteq used' /\ used' \subseteq Rooms
        BY <1>12, <2>1 DEF Create
    <2>3. Invites(e, req[e].room, req[e].names, req[e].names)
        BY <1>12 DEF Create
    <2>4. req[e].names \subseteq Names /\ req[e].op \in {"none", "create", "edit", "send", "dm"}
        OBVIOUS
    <2>5. req' \in [Reqs -> [at : Places, op : {"none", "create", "edit", "send", "dm"},
                            from : Names \cup {None}, room : Rooms \cup {None}, names : SUBSET Names]]
        BY <2>3, <2>4 DEF Invites
    <2>6. roster' \in [Rooms -> SUBSET Names] /\ invited' \in [Rooms -> [Names -> Regs]]
        BY <2>1, <2>3, <2>4, ConstantsAssumption DEF Invites
    <2>7. out' \in [Reqs -> [Names -> Outcomes]]
        BY <2>3 DEF Invites
    <2>8. UNCHANGED <<registry, sender, noted, copied, loose>>
        BY <2>3 DEF Invites
    <2> QED
        BY <2>2, <2>5, <2>6, <2>7, <2>8 DEF registry
<1>13. ASSUME NEW e \in Edits, Change(e) PROVE TypeOK'
    BY <1>13, ConstantsAssumption DEF Change, Invites, registry, rosters, work
<1>14. ASSUME NEW s \in Sends, SendBegins(s) PROVE TypeOK'
    BY <1>14, ConstantsAssumption DEF SendBegins, IsHuman, IsAccepted, registry, rosters, work
<1>15. ASSUME NEW s \in Sends, ReadRoom(s) PROVE TypeOK'
    BY <1>15, ConstantsAssumption DEF ReadRoom, registry, rosters, work
<1>16. ASSUME NEW s \in Sends, PickAgents(s) PROVE TypeOK'
    BY <1>16, ConstantsAssumption DEF PickAgents, Goes, IsAgent, IsAccepted, registry, rosters, work
<1>17. ASSUME NEW s \in Sends, DmLocal(s) PROVE TypeOK'
    BY <1>17, ConstantsAssumption DEF DmLocal, DmGoes, registry, rosters, work
<1>18. ASSUME NEW s \in Sends, DmPeer(s) PROVE TypeOK'
    BY <1>18, ConstantsAssumption DEF DmPeer, DmGoes, registry, rosters, work
<1>19. ASSUME NEW s \in Sends, RecordMessage(s) PROVE TypeOK'
    BY <1>19, ConstantsAssumption DEF RecordMessage, Speaks, Called, Reached, registry, rosters,
       work
<1>20. ASSUME NEW q \in Reqs, Refuse(q) PROVE TypeOK'
    BY <1>20, ConstantsAssumption DEF Refuse, Ends, registry, rosters, work
<1>21. ASSUME NEW q \in Reqs, Leave(q) PROVE TypeOK'
    BY <1>21, ConstantsAssumption DEF Leave, Ends, registry, rosters, work
<1>22. ASSUME NEW q \in Reqs, Join(q) PROVE TypeOK'
    BY <1>22, ConstantsAssumption DEF Join, registry, rosters, work
<1>23. ASSUME NEW q \in Reqs, Respond(q) PROVE TypeOK'
    BY <1>23, ConstantsAssumption DEF Respond, Ends, registry, rosters, work
<1>24. ASSUME NEW q \in Reqs, NEW n \in Names, Ask(q, n) PROVE TypeOK'
    BY <1>24, ConstantsAssumption DEF Ask, Becomes, IsAgent, registry, rosters, work
<1>25. ASSUME NEW q \in Reqs, NEW n \in Names, Deliver(q, n) PROVE TypeOK'
    BY <1>25, ConstantsAssumption DEF Deliver, Becomes, registry, rosters, work
<1>26. ASSUME NEW q \in Reqs, NEW n \in Names, Answer(q, n) PROVE TypeOK'
    BY <1>26, ConstantsAssumption DEF Answer, Becomes, registry, rosters, work
<1>27. ASSUME NEW q \in Reqs, NEW n \in Names, Fail(q, n) PROVE TypeOK'
    BY <1>27, ConstantsAssumption DEF Fail, Becomes, registry, rosters, work
<1>28. ASSUME NEW q \in Reqs, NEW n \in Names, Expire(q, n) PROVE TypeOK'
    BY <1>28, ConstantsAssumption DEF Expire, Becomes, registry, rosters, work
<1>29. ASSUME NEW q \in Reqs, NEW n \in Names, RecordOutcome(q, n) PROVE TypeOK'
    BY <1>29, ConstantsAssumption DEF RecordOutcome, Due, registry, rosters, work
<1>30. ASSUME UNCHANGED vars PROVE TypeOK'
    BY <1>30 DEF vars, registry, rosters, work
<1> QED
    BY <1>1, <1>2, <1>3, <1>4, <1>5, <1>6, <1>7, <1>8, <1>9, <1>10, <1>11, <1>12, <1>13, <1>14,
       <1>15, <1>16, <1>17, <1>18, <1>19, <1>20, <1>21, <1>22, <1>23, <1>24, <1>25, <1>26,
       <1>27, <1>28, <1>29, <1>30 DEF Next, EntryStep, EditStep, SendStep, CallStep, Reqs

\* What is part of a roster is no larger.
LEMMA PartIsBounded ==
    ASSUME NEW S \in SUBSET Names, NEW T \in SUBSET S, Cardinality(S) <= Cap
    PROVE  Cardinality(T) <= Cap
<1>1. IsFiniteSet(S)
    BY FS_Subset, ConstantsAssumption
<1>2. IsFiniteSet(T) /\ Cardinality(T) <= Cardinality(S)
    BY <1>1, FS_Subset
<1>3. Cardinality(S) \in Nat /\ Cardinality(T) \in Nat
    BY <1>1, <1>2, FS_CardinalityType
<1> QED
    BY <1>2, <1>3, ConstantsAssumption

\* No roster grows beyond its cap.
LEMMA BoundStep ==
    ASSUME TypeOK, RosterBounded, [Next]_vars
    PROVE  RosterBounded'
<1> USE DEF TypeOK, RosterBounded, Reqs
<1>1. ASSUME NEW n \in Names, Register(n) PROVE RosterBounded'
    BY <1>1, ConstantsAssumption DEF Register, Changes, registry, rosters, work
<1>2. ASSUME NEW n \in Names, SetState(n) PROVE RosterBounded'
    BY <1>2, ConstantsAssumption DEF SetState, Changes, registry, rosters, work
<1>3. ASSUME NEW n \in Names, Deregister(n) PROVE RosterBounded'
    BY <1>3, ConstantsAssumption DEF Deregister, Changes, Listed, Holds, registry, rosters, work
<1>4. ASSUME NEW n \in Names, Delete(n) PROVE RosterBounded'
    <2>1. req' = req /\ \A t \in Rooms : roster'[t] \in SUBSET roster[t]
        BY <1>4 DEF Delete, Unlist, registry, rosters, work
    <2> QED
        BY <2>1, PartIsBounded
<1>5. ASSUME NEW n \in Names, UnlistAgent(n) PROVE RosterBounded'
    <2>1. req' = req /\ \A t \in Rooms : roster'[t] \in SUBSET roster[t]
        BY <1>5 DEF UnlistAgent, Unlist, registry, rosters, work
    <2> QED
        BY <2>1, PartIsBounded
<1>6. ASSUME NEW n \in Names, DeleteHuman(n) PROVE RosterBounded'
    BY <1>6, ConstantsAssumption DEF DeleteHuman, Changes, Holds, IsHuman, registry, rosters, work
<1>7. ASSUME NEW n \in Names, UnlistHuman(n) PROVE RosterBounded'
    <2>1. req' = req /\ \A t \in Rooms : roster'[t] \in SUBSET roster[t]
        BY <1>7 DEF UnlistHuman, Unlist, registry, rosters, work
    <2> QED
        BY <2>1, PartIsBounded
<1>8. ASSUME NEW n \in Names, LeaveHalf(n) PROVE RosterBounded'
    BY <1>8, ConstantsAssumption DEF LeaveHalf, registry, rosters, work
<1>9. ASSUME NEW r \in Rooms, DeleteRoom(r) PROVE RosterBounded'
    <2>1. req' = req /\ \A t \in Rooms : roster'[t] \in SUBSET roster[t]
        BY <1>9 DEF DeleteRoom, registry, rosters, work
    <2> QED
        BY <2>1, PartIsBounded
<1>10. ASSUME NEW e \in Edits, EditBegins(e) PROVE RosterBounded'
    BY <1>10, ConstantsAssumption DEF EditBegins, IsHuman, IsAccepted, registry, rosters, work
<1>11. ASSUME NEW e \in Edits, Validate(e) PROVE RosterBounded'
    BY <1>11, ConstantsAssumption DEF Validate, IsAccepted, registry, rosters, work
<1>12. ASSUME NEW e \in Edits, Create(e) PROVE RosterBounded'
    BY <1>12, ConstantsAssumption DEF Create, Invites, registry, rosters, work
<1>13. ASSUME NEW e \in Edits, Change(e) PROVE RosterBounded'
    <2> DEFINE t == req[e].room
               S == roster[t] \cup req[e].names
    <2>1. Cardinality(S) <= Cap /\ S \in SUBSET Names
        BY <1>13 DEF Change
    <2>2. PICK del \in SUBSET Names : Invites(e, t, S \ del, req[e].names \ roster[t])
        BY <1>13 DEF Change
    <2>3. Cardinality(S \ del) <= Cap
        BY <2>1, PartIsBounded, S \ del \in SUBSET S
    <2>4. \A u \in Rooms : roster'[u] = IF u = t THEN S \ del ELSE roster[u]
        BY <2>2 DEF Invites
    <2>5. \A q \in Reqs : req'[q].at = "validated" => req'[q] = req[q]
        BY <2>2 DEF Invites
    <2> HIDE DEF S
    <2> QED
        BY <2>3, <2>4, <2>5
<1>14. ASSUME NEW s \in Sends, SendBegins(s) PROVE RosterBounded'
    BY <1>14, ConstantsAssumption DEF SendBegins, IsHuman, IsAccepted, registry, rosters, work
<1>15. ASSUME NEW s \in Sends, ReadRoom(s) PROVE RosterBounded'
    BY <1>15, ConstantsAssumption DEF ReadRoom, registry, rosters, work
<1>16. ASSUME NEW s \in Sends, PickAgents(s) PROVE RosterBounded'
    BY <1>16, ConstantsAssumption DEF PickAgents, Goes, IsAgent, IsAccepted, registry, rosters, work
<1>17. ASSUME NEW s \in Sends, DmLocal(s) PROVE RosterBounded'
    BY <1>17, ConstantsAssumption DEF DmLocal, DmGoes, registry, rosters, work
<1>18. ASSUME NEW s \in Sends, DmPeer(s) PROVE RosterBounded'
    BY <1>18, ConstantsAssumption DEF DmPeer, DmGoes, registry, rosters, work
<1>19. ASSUME NEW s \in Sends, RecordMessage(s) PROVE RosterBounded'
    BY <1>19, ConstantsAssumption DEF RecordMessage, Speaks, Called, Reached, registry, rosters,
       work
<1>20. ASSUME NEW q \in Reqs, Refuse(q) PROVE RosterBounded'
    BY <1>20, ConstantsAssumption DEF Refuse, Ends, registry, rosters, work
<1>21. ASSUME NEW q \in Reqs, Leave(q) PROVE RosterBounded'
    BY <1>21, ConstantsAssumption DEF Leave, Ends, registry, rosters, work
<1>22. ASSUME NEW q \in Reqs, Join(q) PROVE RosterBounded'
    BY <1>22, ConstantsAssumption DEF Join, registry, rosters, work
<1>23. ASSUME NEW q \in Reqs, Respond(q) PROVE RosterBounded'
    BY <1>23, ConstantsAssumption DEF Respond, Ends, registry, rosters, work
<1>24. ASSUME NEW q \in Reqs, NEW n \in Names, Ask(q, n) PROVE RosterBounded'
    BY <1>24, ConstantsAssumption DEF Ask, Becomes, IsAgent, registry, rosters, work
<1>25. ASSUME NEW q \in Reqs, NEW n \in Names, Deliver(q, n) PROVE RosterBounded'
    BY <1>25, ConstantsAssumption DEF Deliver, Becomes, registry, rosters, work
<1>26. ASSUME NEW q \in Reqs, NEW n \in Names, Answer(q, n) PROVE RosterBounded'
    BY <1>26, ConstantsAssumption DEF Answer, Becomes, registry, rosters, work
<1>27. ASSUME NEW q \in Reqs, NEW n \in Names, Fail(q, n) PROVE RosterBounded'
    BY <1>27, ConstantsAssumption DEF Fail, Becomes, registry, rosters, work
<1>28. ASSUME NEW q \in Reqs, NEW n \in Names, Expire(q, n) PROVE RosterBounded'
    BY <1>28, ConstantsAssumption DEF Expire, Becomes, registry, rosters, work
<1>29. ASSUME NEW q \in Reqs, NEW n \in Names, RecordOutcome(q, n) PROVE RosterBounded'
    BY <1>29, ConstantsAssumption DEF RecordOutcome, Due, registry, rosters, work
<1>30. ASSUME UNCHANGED vars PROVE RosterBounded'
    BY <1>30 DEF vars, registry, rosters, work
<1> QED
    BY <1>1, <1>2, <1>3, <1>4, <1>5, <1>6, <1>7, <1>8, <1>9, <1>10, <1>11, <1>12, <1>13, <1>14,
       <1>15, <1>16, <1>17, <1>18, <1>19, <1>20, <1>21, <1>22, <1>23, <1>24, <1>25, <1>26,
       <1>27, <1>28, <1>29, <1>30 DEF Next, EntryStep, EditStep, SendStep, CallStep, Reqs

\* Whoever is on a roster is who was invited.
LEMMA MembersStep ==
    ASSUME TypeOK, MembersWereInvited, CopiesAreCurrent, [Next]_vars
    PROVE  MembersWereInvited'
<1> USE DEF TypeOK, MembersWereInvited, CopiesAreCurrent, IsCurrent, Reqs
<1>1. ASSUME NEW n \in Names, Register(n) PROVE MembersWereInvited'
    BY <1>1, ConstantsAssumption DEF Register, Changes, registry, rosters, work
<1>2. ASSUME NEW n \in Names, SetState(n) PROVE MembersWereInvited'
    <2>1. \A m \in Names : /\ peers[m] # None => peers'[m] # None
                           /\ peers[m] # None => peers'[m].reg = peers[m].reg
        BY <1>2, ConstantsAssumption DEF SetState, Entry
    <2>2. UNCHANGED <<half, rosters, work, loose>>
        BY <1>2 DEF SetState
    <2>3. /\ half' = half /\ loose' = loose /\ roster' = roster /\ invited' = invited
          /\ req' = req /\ copied' = copied
        BY <2>2 DEF rosters, work
    <2>4. \A m \in Names, k \in Regs : IsCurrent(m, k) => IsCurrent(m, k)'
        BY <2>1, <2>3 DEF IsCurrent
    <2> QED
        BY <2>3, <2>4
<1>3. ASSUME NEW n \in Names, Deregister(n) PROVE MembersWereInvited'
    BY <1>3, ConstantsAssumption DEF Deregister, Changes, Listed, Holds, registry, rosters, work
<1>4. ASSUME NEW n \in Names, Delete(n) PROVE MembersWereInvited'
    BY <1>4, ConstantsAssumption DEF Delete, Changes, Unlist, Holds, registry, rosters, work
<1>5. ASSUME NEW n \in Names, UnlistAgent(n) PROVE MembersWereInvited'
    BY <1>5, ConstantsAssumption DEF UnlistAgent, Changes, Unlist, registry, rosters, work
<1>6. ASSUME NEW n \in Names, DeleteHuman(n) PROVE MembersWereInvited'
    BY <1>6, ConstantsAssumption DEF DeleteHuman, Changes, Holds, IsHuman, registry, rosters, work
<1>7. ASSUME NEW n \in Names, UnlistHuman(n) PROVE MembersWereInvited'
    BY <1>7, ConstantsAssumption DEF UnlistHuman, Unlist, Holds, registry, rosters, work
<1>8. ASSUME NEW n \in Names, LeaveHalf(n) PROVE MembersWereInvited'
    BY <1>8, ConstantsAssumption DEF LeaveHalf, registry, rosters, work
<1>9. ASSUME NEW r \in Rooms, DeleteRoom(r) PROVE MembersWereInvited'
    BY <1>9, ConstantsAssumption DEF DeleteRoom, Changes, registry, rosters, work
<1>10. ASSUME NEW e \in Edits, EditBegins(e) PROVE MembersWereInvited'
    BY <1>10, ConstantsAssumption DEF EditBegins, IsHuman, IsAccepted, registry, rosters, work
<1>11. ASSUME NEW e \in Edits, Validate(e) PROVE MembersWereInvited'
    BY <1>11, ConstantsAssumption DEF Validate, IsAccepted, registry, rosters, work
<1>12. ASSUME NEW e \in Edits, Create(e) PROVE MembersWereInvited'
    BY <1>12, ConstantsAssumption DEF Create, Invites, registry, rosters, work
<1>13. ASSUME NEW e \in Edits, Change(e) PROVE MembersWereInvited'
    BY <1>13, ConstantsAssumption DEF Change, Invites, registry, rosters, work
<1>14. ASSUME NEW s \in Sends, SendBegins(s) PROVE MembersWereInvited'
    BY <1>14, ConstantsAssumption DEF SendBegins, IsHuman, IsAccepted, registry, rosters, work
<1>15. ASSUME NEW s \in Sends, ReadRoom(s) PROVE MembersWereInvited'
    BY <1>15, ConstantsAssumption DEF ReadRoom, registry, rosters, work
<1>16. ASSUME NEW s \in Sends, PickAgents(s) PROVE MembersWereInvited'
    BY <1>16, ConstantsAssumption DEF PickAgents, Goes, IsAgent, IsAccepted, registry, rosters, work
<1>17. ASSUME NEW s \in Sends, DmLocal(s) PROVE MembersWereInvited'
    BY <1>17, ConstantsAssumption DEF DmLocal, DmGoes, registry, rosters, work
<1>18. ASSUME NEW s \in Sends, DmPeer(s) PROVE MembersWereInvited'
    BY <1>18, ConstantsAssumption DEF DmPeer, DmGoes, registry, rosters, work
<1>19. ASSUME NEW s \in Sends, RecordMessage(s) PROVE MembersWereInvited'
    BY <1>19, ConstantsAssumption DEF RecordMessage, Speaks, Called, Reached, registry, rosters,
       work
<1>20. ASSUME NEW q \in Reqs, Refuse(q) PROVE MembersWereInvited'
    BY <1>20, ConstantsAssumption DEF Refuse, Ends, registry, rosters, work
<1>21. ASSUME NEW q \in Reqs, Leave(q) PROVE MembersWereInvited'
    BY <1>21, ConstantsAssumption DEF Leave, Ends, registry, rosters, work
<1>22. ASSUME NEW q \in Reqs, Join(q) PROVE MembersWereInvited'
    BY <1>22, ConstantsAssumption DEF Join, registry, rosters, work
<1>23. ASSUME NEW q \in Reqs, Respond(q) PROVE MembersWereInvited'
    BY <1>23, ConstantsAssumption DEF Respond, Ends, registry, rosters, work
<1>24. ASSUME NEW q \in Reqs, NEW n \in Names, Ask(q, n) PROVE MembersWereInvited'
    BY <1>24, ConstantsAssumption DEF Ask, Becomes, IsAgent, registry, rosters, work
<1>25. ASSUME NEW q \in Reqs, NEW n \in Names, Deliver(q, n) PROVE MembersWereInvited'
    BY <1>25, ConstantsAssumption DEF Deliver, Becomes, registry, rosters, work
<1>26. ASSUME NEW q \in Reqs, NEW n \in Names, Answer(q, n) PROVE MembersWereInvited'
    BY <1>26, ConstantsAssumption DEF Answer, Becomes, registry, rosters, work
<1>27. ASSUME NEW q \in Reqs, NEW n \in Names, Fail(q, n) PROVE MembersWereInvited'
    BY <1>27, ConstantsAssumption DEF Fail, Becomes, registry, rosters, work
<1>28. ASSUME NEW q \in Reqs, NEW n \in Names, Expire(q, n) PROVE MembersWereInvited'
    BY <1>28, ConstantsAssumption DEF Expire, Becomes, registry, rosters, work
<1>29. ASSUME NEW q \in Reqs, NEW n \in Names, RecordOutcome(q, n) PROVE MembersWereInvited'
    BY <1>29, ConstantsAssumption DEF RecordOutcome, Due, registry, rosters, work
<1>30. ASSUME UNCHANGED vars PROVE MembersWereInvited'
    BY <1>30 DEF vars, registry, rosters, work
<1> QED
    BY <1>1, <1>2, <1>3, <1>4, <1>5, <1>6, <1>7, <1>8, <1>9, <1>10, <1>11, <1>12, <1>13, <1>14,
       <1>15, <1>16, <1>17, <1>18, <1>19, <1>20, <1>21, <1>22, <1>23, <1>24, <1>25, <1>26,
       <1>27, <1>28, <1>29, <1>30 DEF Next, EntryStep, EditStep, SendStep, CallStep, Reqs

\* Whoever a request has copied is who was invited.
LEMMA CopiesStep ==
    ASSUME TypeOK, MembersWereInvited, CopiesAreCurrent, [Next]_vars
    PROVE  CopiesAreCurrent'
<1> USE DEF TypeOK, MembersWereInvited, CopiesAreCurrent, IsCurrent, Reqs
<1>1. ASSUME NEW n \in Names, Register(n) PROVE CopiesAreCurrent'
    BY <1>1, ConstantsAssumption DEF Register, Changes, registry, rosters, work
<1>2. ASSUME NEW n \in Names, SetState(n) PROVE CopiesAreCurrent'
    <2>1. \A m \in Names : /\ peers[m] # None => peers'[m] # None
                           /\ peers[m] # None => peers'[m].reg = peers[m].reg
        BY <1>2, ConstantsAssumption DEF SetState, Entry
    <2>2. UNCHANGED <<half, rosters, work, loose>>
        BY <1>2 DEF SetState
    <2>3. /\ half' = half /\ loose' = loose /\ roster' = roster /\ invited' = invited
          /\ req' = req /\ copied' = copied
        BY <2>2 DEF rosters, work
    <2>4. \A m \in Names, k \in Regs : IsCurrent(m, k) => IsCurrent(m, k)'
        BY <2>1, <2>3 DEF IsCurrent
    <2> SUFFICES ASSUME NEW q \in Reqs, req'[q].at \in {"validated", "read", "fan"}, NEW m \in req'[q].names
                 PROVE  IsCurrent(m, copied[q][m])'
        OBVIOUS
    <2>5. m \in Names /\ copied[q][m] \in Regs /\ IsCurrent(m, copied[q][m])
        BY <2>3
    <2>6. IsCurrent(m, copied[q][m])'
        BY <2>3, <2>4, <2>5 DEF IsCurrent
    <2> QED
        BY <2>6
<1>3. ASSUME NEW n \in Names, Deregister(n) PROVE CopiesAreCurrent'
    BY <1>3, ConstantsAssumption DEF Deregister, Changes, Listed, Holds, registry, rosters, work
<1>4. ASSUME NEW n \in Names, Delete(n) PROVE CopiesAreCurrent'
    BY <1>4, ConstantsAssumption DEF Delete, Changes, Unlist, Holds, registry, rosters, work
<1>5. ASSUME NEW n \in Names, UnlistAgent(n) PROVE CopiesAreCurrent'
    BY <1>5, ConstantsAssumption DEF UnlistAgent, Changes, Unlist, registry, rosters, work
<1>6. ASSUME NEW n \in Names, DeleteHuman(n) PROVE CopiesAreCurrent'
    BY <1>6, ConstantsAssumption DEF DeleteHuman, Changes, Holds, IsHuman, registry, rosters, work
<1>7. ASSUME NEW n \in Names, UnlistHuman(n) PROVE CopiesAreCurrent'
    BY <1>7, ConstantsAssumption DEF UnlistHuman, Unlist, Holds, registry, rosters, work
<1>8. ASSUME NEW n \in Names, LeaveHalf(n) PROVE CopiesAreCurrent'
    BY <1>8, ConstantsAssumption DEF LeaveHalf, registry, rosters, work
<1>9. ASSUME NEW r \in Rooms, DeleteRoom(r) PROVE CopiesAreCurrent'
    BY <1>9, ConstantsAssumption DEF DeleteRoom, Changes, registry, rosters, work
<1>10. ASSUME NEW e \in Edits, EditBegins(e) PROVE CopiesAreCurrent'
    BY <1>10, ConstantsAssumption DEF EditBegins, IsHuman, IsAccepted, registry, rosters, work
<1>11. ASSUME NEW e \in Edits, Validate(e) PROVE CopiesAreCurrent'
    BY <1>11, ConstantsAssumption DEF Validate, IsAccepted, registry, rosters, work
<1>12. ASSUME NEW e \in Edits, Create(e) PROVE CopiesAreCurrent'
    BY <1>12, ConstantsAssumption DEF Create, Invites, registry, rosters, work
<1>13. ASSUME NEW e \in Edits, Change(e) PROVE CopiesAreCurrent'
    BY <1>13, ConstantsAssumption DEF Change, Invites, registry, rosters, work
<1>14. ASSUME NEW s \in Sends, SendBegins(s) PROVE CopiesAreCurrent'
    BY <1>14, ConstantsAssumption DEF SendBegins, IsHuman, IsAccepted, registry, rosters, work
<1>15. ASSUME NEW s \in Sends, ReadRoom(s) PROVE CopiesAreCurrent'
    BY <1>15, ConstantsAssumption DEF ReadRoom, registry, rosters, work
<1>16. ASSUME NEW s \in Sends, PickAgents(s) PROVE CopiesAreCurrent'
    BY <1>16, ConstantsAssumption DEF PickAgents, Goes, IsAgent, IsAccepted, registry, rosters, work
<1>17. ASSUME NEW s \in Sends, DmLocal(s) PROVE CopiesAreCurrent'
    BY <1>17, ConstantsAssumption DEF DmLocal, DmGoes, registry, rosters, work
<1>18. ASSUME NEW s \in Sends, DmPeer(s) PROVE CopiesAreCurrent'
    BY <1>18, ConstantsAssumption DEF DmPeer, DmGoes, registry, rosters, work
<1>19. ASSUME NEW s \in Sends, RecordMessage(s) PROVE CopiesAreCurrent'
    BY <1>19, ConstantsAssumption DEF RecordMessage, Speaks, Called, Reached, registry, rosters,
       work
<1>20. ASSUME NEW q \in Reqs, Refuse(q) PROVE CopiesAreCurrent'
    BY <1>20, ConstantsAssumption DEF Refuse, Ends, registry, rosters, work
<1>21. ASSUME NEW q \in Reqs, Leave(q) PROVE CopiesAreCurrent'
    BY <1>21, ConstantsAssumption DEF Leave, Ends, registry, rosters, work
<1>22. ASSUME NEW q \in Reqs, Join(q) PROVE CopiesAreCurrent'
    BY <1>22, ConstantsAssumption DEF Join, registry, rosters, work
<1>23. ASSUME NEW q \in Reqs, Respond(q) PROVE CopiesAreCurrent'
    BY <1>23, ConstantsAssumption DEF Respond, Ends, registry, rosters, work
<1>24. ASSUME NEW q \in Reqs, NEW n \in Names, Ask(q, n) PROVE CopiesAreCurrent'
    BY <1>24, ConstantsAssumption DEF Ask, Becomes, IsAgent, registry, rosters, work
<1>25. ASSUME NEW q \in Reqs, NEW n \in Names, Deliver(q, n) PROVE CopiesAreCurrent'
    BY <1>25, ConstantsAssumption DEF Deliver, Becomes, registry, rosters, work
<1>26. ASSUME NEW q \in Reqs, NEW n \in Names, Answer(q, n) PROVE CopiesAreCurrent'
    BY <1>26, ConstantsAssumption DEF Answer, Becomes, registry, rosters, work
<1>27. ASSUME NEW q \in Reqs, NEW n \in Names, Fail(q, n) PROVE CopiesAreCurrent'
    BY <1>27, ConstantsAssumption DEF Fail, Becomes, registry, rosters, work
<1>28. ASSUME NEW q \in Reqs, NEW n \in Names, Expire(q, n) PROVE CopiesAreCurrent'
    BY <1>28, ConstantsAssumption DEF Expire, Becomes, registry, rosters, work
<1>29. ASSUME NEW q \in Reqs, NEW n \in Names, RecordOutcome(q, n) PROVE CopiesAreCurrent'
    BY <1>29, ConstantsAssumption DEF RecordOutcome, Due, registry, rosters, work
<1>30. ASSUME UNCHANGED vars PROVE CopiesAreCurrent'
    BY <1>30 DEF vars, registry, rosters, work
<1> QED
    BY <1>1, <1>2, <1>3, <1>4, <1>5, <1>6, <1>7, <1>8, <1>9, <1>10, <1>11, <1>12, <1>13, <1>14,
       <1>15, <1>16, <1>17, <1>18, <1>19, <1>20, <1>21, <1>22, <1>23, <1>24, <1>25, <1>26,
       <1>27, <1>28, <1>29, <1>30 DEF Next, EntryStep, EditStep, SendStep, CallStep, Reqs

\* Calls go to the names a request has copied.
LEMMA CallsStep ==
    ASSUME TypeOK, CallsAreOfCopy, [Next]_vars
    PROVE  CallsAreOfCopy'
<1> USE DEF TypeOK, CallsAreOfCopy, Reqs, NoCalls
<1>1. ASSUME NEW n \in Names, EntryStep(n) PROVE CallsAreOfCopy'
    BY <1>1, ConstantsAssumption DEF EntryStep, Register, SetState, Deregister, Delete,
       UnlistAgent, DeleteHuman, UnlistHuman, LeaveHalf, Changes, Listed, Holds, Unlist,
       IsHuman, registry, rosters, work
<1>2. ASSUME NEW r \in Rooms, DeleteRoom(r) PROVE CallsAreOfCopy'
    BY <1>2, ConstantsAssumption DEF DeleteRoom, Changes, registry, rosters, work
<1>3. ASSUME NEW e \in Edits, EditBegins(e) PROVE CallsAreOfCopy'
    BY <1>3, ConstantsAssumption DEF EditBegins, IsHuman, IsAccepted, registry, rosters, work
<1>4. ASSUME NEW e \in Edits, Validate(e) PROVE CallsAreOfCopy'
    BY <1>4, ConstantsAssumption DEF Validate, IsAccepted, registry, rosters, work
<1>5. ASSUME NEW e \in Edits, Create(e) PROVE CallsAreOfCopy'
    BY <1>5, ConstantsAssumption DEF Create, Invites, registry, rosters, work
<1>6. ASSUME NEW e \in Edits, Change(e) PROVE CallsAreOfCopy'
    BY <1>6, ConstantsAssumption DEF Change, Invites, registry, rosters, work
<1>7. ASSUME NEW s \in Sends, SendBegins(s) PROVE CallsAreOfCopy'
    BY <1>7, ConstantsAssumption DEF SendBegins, IsHuman, IsAccepted, registry, rosters, work
<1>8. ASSUME NEW s \in Sends, ReadRoom(s) PROVE CallsAreOfCopy'
    BY <1>8, ConstantsAssumption DEF ReadRoom, registry, rosters, work
<1>9. ASSUME NEW s \in Sends, PickAgents(s) PROVE CallsAreOfCopy'
    BY <1>9, ConstantsAssumption DEF PickAgents, Goes, IsAgent, IsAccepted, registry, rosters, work
<1>10. ASSUME NEW s \in Sends, DmLocal(s) PROVE CallsAreOfCopy'
    BY <1>10, ConstantsAssumption DEF DmLocal, DmGoes, registry, rosters, work
<1>11. ASSUME NEW s \in Sends, DmPeer(s) PROVE CallsAreOfCopy'
    BY <1>11, ConstantsAssumption DEF DmPeer, DmGoes, registry, rosters, work
<1>12. ASSUME NEW s \in Sends, RecordMessage(s) PROVE CallsAreOfCopy'
    BY <1>12, ConstantsAssumption DEF RecordMessage, Speaks, Called, Reached, registry, rosters,
       work
<1>13. ASSUME NEW q \in Reqs, Refuse(q) PROVE CallsAreOfCopy'
    BY <1>13, ConstantsAssumption DEF Refuse, Ends, registry, rosters, work
<1>14. ASSUME NEW q \in Reqs, Leave(q) PROVE CallsAreOfCopy'
    BY <1>14, ConstantsAssumption DEF Leave, Ends, registry, rosters, work
<1>15. ASSUME NEW q \in Reqs, Join(q) PROVE CallsAreOfCopy'
    BY <1>15, ConstantsAssumption DEF Join, registry, rosters, work
<1>16. ASSUME NEW q \in Reqs, Respond(q) PROVE CallsAreOfCopy'
    BY <1>16, ConstantsAssumption DEF Respond, Ends, registry, rosters, work
<1>17. ASSUME NEW q \in Reqs, NEW n \in Names, Ask(q, n) PROVE CallsAreOfCopy'
    BY <1>17, ConstantsAssumption DEF Ask, Becomes, IsAgent, registry, rosters, work
<1>18. ASSUME NEW q \in Reqs, NEW n \in Names, Deliver(q, n) PROVE CallsAreOfCopy'
    BY <1>18, ConstantsAssumption DEF Deliver, Becomes, registry, rosters, work
<1>19. ASSUME NEW q \in Reqs, NEW n \in Names, Answer(q, n) PROVE CallsAreOfCopy'
    BY <1>19, ConstantsAssumption DEF Answer, Becomes, registry, rosters, work
<1>20. ASSUME NEW q \in Reqs, NEW n \in Names, Fail(q, n) PROVE CallsAreOfCopy'
    BY <1>20, ConstantsAssumption DEF Fail, Becomes, registry, rosters, work
<1>21. ASSUME NEW q \in Reqs, NEW n \in Names, Expire(q, n) PROVE CallsAreOfCopy'
    BY <1>21, ConstantsAssumption DEF Expire, Becomes, registry, rosters, work
<1>22. ASSUME NEW q \in Reqs, NEW n \in Names, RecordOutcome(q, n) PROVE CallsAreOfCopy'
    BY <1>22, ConstantsAssumption DEF RecordOutcome, Due, registry, rosters, work
<1>23. ASSUME UNCHANGED vars PROVE CallsAreOfCopy'
    BY <1>23 DEF vars, registry, rosters, work
<1> QED
    BY <1>1, <1>2, <1>3, <1>4, <1>5, <1>6, <1>7, <1>8, <1>9, <1>10, <1>11, <1>12, <1>13, <1>14,
       <1>15, <1>16, <1>17, <1>18, <1>19, <1>20, <1>21, <1>22, <1>23 DEF Next, EntryStep,
       EditStep, SendStep, CallStep, Reqs

\* The system starts in it.
LEMMA InvInit == Init => Inv
<1> SUFFICES ASSUME Init PROVE Inv
    OBVIOUS
<1> USE DEF Init, NoReq, NoCalls, Zero, Reqs
<1>1. TypeOK
    BY ConstantsAssumption DEF TypeOK, Entry, Regs, Places, Outcomes
<1>2. RosterBounded
    BY DEF RosterBounded
<1>3. MembersWereInvited
    <2>1. \A n \in Names : peers[n] # None /\ peers[n].reg = 0
        BY ConstantsAssumption DEF Entry
    <2>2. \A r \in Rooms : \A n \in roster[r] : n \in Names /\ invited[r][n] = 0
        OBVIOUS
    <2> QED
        BY <2>1, <2>2 DEF MembersWereInvited, IsCurrent
<1> QED
    BY <1>1, <1>2, <1>3 DEF Inv, RoomsAreGivenOut, CopiesAreCurrent, CallsAreOfCopy

\* Types, caps, and that names stand for who was invited.
THEOREM Invariant == Spec => []Inv
<1>1. Inv /\ [Next]_vars => Inv'
    BY TypeStep, GivenStep, BoundStep, MembersStep, CopiesStep, CallsStep DEF Inv
<1> QED
    BY <1>1, InvInit, PTL DEF Spec

\* A member of a room is the peer that was invited to it, two exceptions apart.
THEOREM MembersAreInvited == Spec => []MembersWereInvited
    BY Invariant, PTL DEF Inv

\* What OnlyGuestsHear says of a step.
GuestsHear ==
    \A q \in Reqs : \A n \in Names :
        req[q].op = "send" /\ out[q][n] = "queued" /\ out'[q][n] = "sent" =>
            n \in req[q].names /\ IsCurrent(n, copied[q][n])

\* Only a call of deliver sends, to a name of the copy.
LEMMA HearStep ==
    ASSUME Inv, [Next]_vars
    PROVE  GuestsHear
<1> USE DEF TypeOK, Reqs, GuestsHear, NoCalls, CallsAreOfCopy, CopiesAreCurrent
<1>0. TypeOK /\ CallsAreOfCopy /\ CopiesAreCurrent
    BY DEF Inv
<1>1. ASSUME NEW n \in Names, EntryStep(n) PROVE GuestsHear
    BY <1>1, ConstantsAssumption, <1>0 DEF EntryStep, Register, SetState, Deregister,
       Delete, UnlistAgent, DeleteHuman, UnlistHuman, LeaveHalf, Changes, Listed, Holds,
       Unlist, IsHuman, registry, rosters, work
<1>2. ASSUME NEW r \in Rooms, DeleteRoom(r) PROVE GuestsHear
    BY <1>2, ConstantsAssumption, <1>0 DEF DeleteRoom, Changes, registry, rosters, work
<1>3. ASSUME NEW e \in Edits, EditStep(e) PROVE GuestsHear
    BY <1>3, ConstantsAssumption, <1>0 DEF EditStep, EditBegins, Validate, Create,
       Change, IsHuman, IsAccepted, Invites, registry, rosters, work
<1>4. ASSUME NEW s \in Sends, SendStep(s) PROVE GuestsHear
    BY <1>4, ConstantsAssumption, <1>0 DEF SendStep, SendBegins, ReadRoom, PickAgents,
       DmLocal, DmPeer, RecordMessage, IsHuman, IsAccepted, Goes, IsAgent, DmGoes, Speaks,
       Called, Reached, registry, rosters, work
<1>5. ASSUME NEW q \in Reqs, Refuse(q) \/ Leave(q) \/ Join(q) \/ Respond(q) PROVE GuestsHear
    BY <1>5, ConstantsAssumption, <1>0, SMTT(30) DEF Refuse, Leave, Join, Respond, Ends, registry,
       rosters, work
<1>6. ASSUME NEW q \in Reqs, NEW n \in Names, CallStep(q, n) PROVE GuestsHear
    BY <1>6, ConstantsAssumption, <1>0 DEF CallStep, Ask, Deliver, Answer, Fail, Expire,
       RecordOutcome, Becomes, IsAgent, Due, registry, rosters, work
<1>7. ASSUME UNCHANGED vars PROVE GuestsHear
    BY <1>7, <1>0 DEF vars, registry, rosters, work
<1> QED
    BY <1>1, <1>2, <1>3, <1>4, <1>5, <1>6, <1>7 DEF Next, EntryStep, EditStep, SendStep,
       CallStep, Reqs

\* A message to a room goes to those who were invited, and to nobody else.
THEOREM GuestsOnly == Spec => OnlyGuestsHear
<1>1. Inv /\ [Next]_vars => [GuestsHear]_vars
    BY HearStep
<1> QED
    BY <1>1, Invariant, PTL DEF Spec, OnlyGuestsHear, GuestsHear

-----------------------------------------------------------------------------
(* The ids of the messenger.                                               *)

\* A set of naturals below a bound has a greatest one.
LEMMA MaxOfBounded ==
    ASSUME NEW S \in SUBSET Nat, S # {}, NEW b \in Nat, \A x \in S : x < b
    PROVE  Max(S) \in S /\ \A y \in S : y <= Max(S)
<1> DEFINE T == {b - x : x \in S}
<1>1. T \subseteq Nat /\ T # {}
    <2>1. ASSUME NEW x \in S PROVE b - x \in Nat
        <3>1. x \in Nat /\ x < b
            BY <2>1
        <3> QED
            BY <3>1
    <2> QED
        BY <2>1
<1>2. PICK t \in T : \A u \in T : <<u, t>> \notin OpToRel(<, Nat)
    <2> HIDE DEF T
    <2> QED
        BY <1>1, NatLessThanWellFounded, WFMin
<1>3. \A u \in T : ~(u < t)
    BY <1>1, <1>2 DEF OpToRel
<1>4. PICK x \in S : t = b - x
    BY <1>2
<1>5. \A y \in S : x >= y
    <2>1. SUFFICES ASSUME NEW y \in S PROVE x >= y
        OBVIOUS
    <2>2. ~(b - y < t)
        BY <1>3
    <2>3. x \in Nat /\ y \in Nat /\ b \in Nat
        BY <1>4
    <2> QED
        BY <1>4, <2>2, <2>3
<1>6. Max(S) \in S /\ \A y \in S : Max(S) >= y
    BY <1>5 DEF Max
<1> QED
    BY <1>6

LEMMA RangeOfLines ==
    ASSUME NEW f \in Seq(Msgs)
    PROVE  /\ Range(f) \subseteq Msgs
           /\ f # <<>> => Range(f) # {}
           /\ Range(<<>>) = {}
           /\ \A m \in Msgs : Append(f, m) \in Seq(Msgs) /\ Range(Append(f, m)) = Range(f) \cup {m}
<1>1. Range(f) \subseteq Msgs
    BY DEF Range
<1>2. f # <<>> => Range(f) # {}
    <2>1. f # <<>> => 1 \in DOMAIN f
        OBVIOUS
    <2> QED
        BY <2>1 DEF Range
<1>3. Range(<<>>) = {}
    BY DEF Range
<1>4. ASSUME NEW m \in Msgs PROVE Range(Append(f, m)) = Range(f) \cup {m}
    <2>1. DOMAIN Append(f, m) = 1..(Len(f) + 1) /\ DOMAIN f = 1..Len(f) /\ Len(f) \in Nat
        OBVIOUS
    <2>2. Append(f, m)[Len(f) + 1] = m /\ \A i \in 1..Len(f) : Append(f, m)[i] = f[i]
        OBVIOUS
    <2>3. 1..(Len(f) + 1) = (1..Len(f)) \cup {Len(f) + 1}
        BY <2>1
    <2> QED
        BY <2>1, <2>2, <2>3 DEF Range
<1> QED
    BY <1>1, <1>2, <1>3, <1>4

\* A start goes on above the file.
LEMMA NextIdIsAbove ==
    ASSUME LogOK, LinesAreWritten
    PROVE  NextId \in Nat /\ \A m \in Range(lines) : id[m] < NextId
<1> DEFINE S == {id[m] : m \in Range(lines)}
<1>1. Range(lines) \subseteq Msgs /\ (lines # <<>> => Range(lines) # {}) /\ Range(<<>>) = {}
    BY RangeOfLines DEF LogOK
<1>2. CASE lines = <<>>
    BY <1>1, <1>2 DEF NextId
<1>3. CASE lines # <<>>
    <2>1. S \in SUBSET Nat /\ S # {} /\ seq \in Nat /\ \A x \in S : x < seq
        BY <1>1, <1>3 DEF LogOK, LinesAreWritten
    <2>2. Max(S) \in S /\ \A y \in S : y <= Max(S)
        <3> HIDE DEF S
        <3> QED
            BY <2>1, MaxOfBounded
    <2>3. Max(S) \in Nat /\ \A m \in Range(lines) : id[m] \in Nat /\ id[m] <= Max(S)
        BY <2>1, <2>2
    <2>4. NextId = Max(S) + 1
        BY <1>3 DEF NextId
    <2> HIDE DEF S
    <2> QED
        BY <2>3, <2>4
<1> QED
    BY <1>2, <1>3

\* The steps that leave ids and lines alone, and bring no message out of the log.
LEMMA ChatQuiet ==
    ASSUME ChatInv, UNCHANGED <<seq, id, lines, size, tail, faults, shaken>>,
           place' \in [Msgs -> Appending \cup Finished \cup {"idle", "dropped"}],
           \A m \in Msgs : \/ place'[m] = place[m]
                          \/ (place[m] \in Finished /\ place'[m] \in Finished)
                          \/ (place[m] \in {"numbered", "full", "ready"} /\ place'[m] \in {"full", "ready", "opened"})
                          \/ (place[m] = "cleared" /\ place'[m] = "reopened")
    PROVE  ChatInv'
<1> USE DEF Appending, Finished, Holding
<1>1. LogOK' /\ LinesAreWritten'
    <2>1. Range(lines) \subseteq Msgs
        BY RangeOfLines DEF ChatInv, LogOK
    <2> QED
        BY <2>1 DEF ChatInv, LogOK, LinesAreWritten
<1>2. Numbered' = Numbered
    BY DEF Numbered
<1>3. ASSUME IdsAreApart PROVE IdsAreApart'
    BY <1>2, <1>3 DEF IdsAreApart
<1>4. ASSUME TakenIsCovered PROVE TakenIsCovered'
    <2>1. \A y \in Msgs : Stays(y) => Stays(y)'
        BY DEF Stays
    <2>2. \A m \in Msgs : place'[m] \in Finished \cup {"stray"} => place[m] \in Finished \cup {"stray"}
        OBVIOUS
    <2> QED
        BY <1>4, <2>1, <2>2 DEF TakenIsCovered
<1> QED
    BY <1>1, <1>3, <1>4 DEF ChatInv

LEMMA TakeIdStep ==
    ASSUME ChatInv, NEW m \in Msgs, TakeId(m)
    PROVE  ChatInv'
<1> USE DEF Appending, Finished, Holding
<1>1. /\ place[m] = "idle" /\ place' = [place EXCEPT ![m] = "numbered"]
      /\ id' = [id EXCEPT ![m] = seq] /\ seq' = seq + 1
      /\ UNCHANGED <<lines, size, tail, faults, shaken>>
    BY DEF TakeId, Moves, file
<1>2. LogOK /\ LinesAreWritten /\ Range(lines) \subseteq Msgs
    BY RangeOfLines DEF ChatInv, LogOK
<1>3. LogOK'
    BY <1>1, <1>2 DEF LogOK
<1>4. /\ \A x \in Msgs : x # m => place'[x] = place[x] /\ id'[x] = id[x]
      /\ place'[m] = "numbered" /\ id'[m] = seq /\ seq \in Nat
      /\ \A x \in Msgs : id[x] \in Nat
    BY <1>1, <1>2 DEF LogOK
<1>5. m \notin Range(lines)
    BY <1>1, <1>2 DEF LinesAreWritten
<1>6. LinesAreWritten'
    BY <1>1, <1>2, <1>4, <1>5 DEF LinesAreWritten
<1>7. ASSUME IdsAreApart PROVE IdsAreApart'
    <2>1. Numbered' = Numbered \cup {m} /\ m \notin Numbered /\ Numbered \subseteq Msgs
        BY <1>1, <1>4 DEF Numbered
    <2>2. \A x \in Numbered : id'[x] = id[x] /\ id[x] < seq
        BY <1>4, <1>7, <2>1 DEF IdsAreApart
    <2> QED
        BY <1>1, <1>4, <1>7, <2>1, <2>2 DEF IdsAreApart
<1>8. ASSUME TakenIsCovered PROVE TakenIsCovered'
    <2>1. \A y \in Msgs : Stays(y) => y # m /\ Stays(y)'
        BY <1>1, <1>4, <1>5 DEF Stays
    <2> QED
        BY <1>1, <1>4, <1>8, <2>1 DEF TakenIsCovered
<1> QED
    BY <1>1, <1>3, <1>6, <1>7, <1>8 DEF ChatInv

LEMMA RotateStep ==
    ASSUME ChatInv, NEW m \in Msgs, Rotate(m)
    PROVE  ChatInv'
<1> USE DEF Appending, Finished, Holding
<1>1. /\ place[m] = "full" /\ lines' = <<>> /\ size' = 0 /\ tail' = "whole"
      /\ UNCHANGED <<seq, id, faults>>
      /\ shaken' = (shaken \/ \E x \in Msgs : id[x] > id[m] /\ (x \in Range(lines) \/ place[x] \in Holding))
      /\ place' = [x \in Msgs |-> IF x = m THEN "cleared"
                                 ELSE IF place[x] \in Holding THEN "stray" ELSE place[x]]
    BY DEF Rotate
<1>2. LogOK /\ LinesAreWritten /\ Range(lines) \subseteq Msgs /\ Range(<<>>) = {} /\ <<>> \in Seq(Msgs)
    BY RangeOfLines DEF ChatInv, LogOK
<1>3. /\ place'[m] = "cleared"
      /\ \A x \in Msgs : x # m => place'[x] = IF place[x] \in Holding THEN "stray" ELSE place[x]
      /\ \A x \in Msgs : id[x] \in Nat
    BY <1>1, <1>2 DEF LogOK
<1>4. LogOK'
    BY <1>1, <1>2 DEF LogOK
<1>5. LinesAreWritten'
    BY <1>1, <1>2, <1>3 DEF LinesAreWritten
<1>6. Numbered' = Numbered /\ m \in Numbered
    BY <1>1, <1>3 DEF Numbered
<1>7. ASSUME IdsAreApart PROVE IdsAreApart'
    BY <1>1, <1>6, <1>7 DEF IdsAreApart
<1>8. ASSUME IdsAreApart, TakenIsCovered, ~shaken' PROVE TakenIsCovered'
    <2>1. ASSUME NEW x \in Msgs, place'[x] \in Finished \cup {"stray"}
          PROVE  \E y \in Msgs : Stays(y)' /\ id[x] < id[y]
        <3>1. x # m /\ Stays(m)'
            BY <1>3, <2>1 DEF Stays
        <3>2. ASSUME NEW y \in Msgs, y # m, y \in Numbered, y \in Range(lines) \/ place[y] \in Holding
              PROVE  id[y] < id[m]
            <4>1. ~(id[y] > id[m]) /\ id[y] # id[m]
                BY <1>1, <1>6, <1>8, <3>2 DEF IdsAreApart
            <4> QED
                BY <1>3, <4>1
        <3>3. CASE x \in Range(lines) \/ place[x] \in Holding
            <4>1. x \in Numbered
                BY <1>2, <3>3 DEF LinesAreWritten, Numbered
            <4> QED
                BY <3>1, <3>2, <3>3, <4>1
        <3>4. CASE ~(x \in Range(lines) \/ place[x] \in Holding)
            <4>1. place[x] \in Finished \cup {"stray"}
                BY <1>3, <2>1, <3>1, <3>4
            <4>2. PICK y \in Msgs : Stays(y) /\ id[x] < id[y]
                BY <1>8, <3>4, <4>1 DEF TakenIsCovered
            <4>3. CASE place[y] = "cleared"
                <5>1. Stays(y)'
                    BY <1>1, <1>3, <4>3 DEF Stays
                <5> QED
                    BY <4>2, <5>1
            <4>4. CASE place[y] # "cleared"
                <5>1. y \in Numbered /\ (y \in Range(lines) \/ place[y] \in Holding) /\ y # m
                    BY <1>1, <1>2, <4>2, <4>4 DEF Stays, LinesAreWritten, Numbered
                <5>2. id[y] < id[m]
                    BY <3>2, <5>1
                <5>3. id[x] < id[m]
                    BY <1>3, <4>2, <5>2
                <5> QED
                    BY <3>1, <5>3
            <4> QED
                BY <4>3, <4>4
        <3> QED
            BY <3>3, <3>4
    <2> QED
        BY <1>1, <2>1 DEF TakenIsCovered
<1>9. ~shaken' => ~shaken
    BY <1>1
<1> QED
    BY <1>1, <1>4, <1>5, <1>7, <1>8, <1>9 DEF ChatInv

LEMMA WriteStep ==
    ASSUME ChatInv, NEW m \in Msgs, Write(m)
    PROVE  ChatInv'
<1> USE DEF Appending, Finished, Holding
<1>1. /\ place[m] \in Holding \cup {"stray"} /\ place' = [place EXCEPT ![m] = "written"]
      /\ lines' = IF place[m] = "stray" \/ tail # "whole" THEN lines ELSE Append(lines, m)
      /\ size' \in {size, size + 1} /\ tail' \in {tail, "whole"}
      /\ UNCHANGED <<seq, id, faults, shaken>>
    BY DEF Write, Lands, Moves, past, file
<1>2. LogOK /\ LinesAreWritten /\ Range(lines) \subseteq Msgs
    BY RangeOfLines DEF ChatInv, LogOK
<1>3. /\ place'[m] = "written" /\ \A x \in Msgs : x # m => place'[x] = place[x]
    BY <1>1, <1>2 DEF LogOK
<1>4. /\ lines' \in Seq(Msgs)
      /\ Range(lines') = Range(lines) \cup (IF place[m] = "stray" \/ tail # "whole" THEN {} ELSE {m})
    BY <1>1, <1>2, RangeOfLines DEF LogOK
<1>5. LogOK'
    BY <1>1, <1>2, <1>4 DEF LogOK
<1>6. LinesAreWritten'
    BY <1>1, <1>2, <1>3, <1>4 DEF LinesAreWritten
<1>7. Numbered' = Numbered
    BY <1>1, <1>3 DEF Numbered
<1>8. ASSUME IdsAreApart PROVE IdsAreApart'
    BY <1>1, <1>7, <1>8 DEF IdsAreApart
<1>9. ASSUME TakenIsCovered, faults = 0 PROVE TakenIsCovered'
    <2>0. tail = "whole"
        BY <1>2, <1>9 DEF LogOK
    <2>1. \A y \in Msgs : Stays(y) => Stays(y)'
        BY <1>1, <1>3, <1>4, <2>0 DEF Stays
    <2>2. ASSUME NEW x \in Msgs, place'[x] \in Finished \cup {"stray"}, x \notin Range(lines')
          PROVE  place[x] \in Finished \cup {"stray"} /\ x \notin Range(lines)
        BY <1>1, <1>3, <1>4, <2>0, <2>2
    <2> QED
        BY <1>1, <1>9, <2>1, <2>2 DEF TakenIsCovered
<1> QED
    BY <1>1, <1>5, <1>6, <1>8, <1>9 DEF ChatInv

LEMMA RestartStep ==
    ASSUME ChatInv, Restart
    PROVE  ChatInv'
<1> USE DEF Appending, Finished, Holding
<1>1. /\ place' = Fallen /\ seq' = NextId /\ UNCHANGED <<id, lines, size, tail, faults>>
      /\ shaken' = (shaken \/ \E m \in Msgs : place[m] \in {"cleared", "reopened"})
    BY DEF Restart, file
<1>2. LogOK /\ LinesAreWritten /\ Range(lines) \subseteq Msgs
    BY RangeOfLines DEF ChatInv, LogOK
<1>3. NextId \in Nat /\ \A m \in Range(lines) : id[m] < NextId
    BY <1>2, NextIdIsAbove
<1>4. ASSUME NEW m \in Msgs
      PROVE  /\ m \in Range(lines) => place'[m] = "loaded"
             /\ m \notin Range(lines) =>
                   \/ (place'[m] = "dropped" /\ place[m] \in Appending)
                   \/ (place'[m] = "gone" /\ place[m] \in Finished)
                   \/ (place'[m] = place[m] /\ place[m] \in {"idle", "dropped"})
    <2>1. place[m] \in Appending \cup Finished \cup {"idle", "dropped"}
        BY <1>2 DEF LogOK
    <2>2. place'[m] = IF m \in Range(lines) THEN "loaded"
                      ELSE IF place[m] \in Appending THEN "dropped"
                      ELSE IF place[m] \in Finished THEN "gone" ELSE place[m]
        BY <1>1 DEF Fallen
    <2> QED
        BY <2>1, <2>2
<1>5. place' \in [Msgs -> Appending \cup Finished \cup {"idle", "dropped"}]
    <2>1. DOMAIN place' = Msgs /\ place' = [m \in Msgs |-> place'[m]]
        BY <1>1 DEF Fallen
    <2> QED
        BY <1>4, <2>1
<1>6. LogOK'
    BY <1>1, <1>2, <1>3, <1>5 DEF LogOK
<1>7. LinesAreWritten'
    BY <1>1, <1>2, <1>3, <1>4 DEF LinesAreWritten
<1>8. ASSUME IdsAreApart, TakenIsCovered, ~shaken' PROVE IdsAreApart' /\ TakenIsCovered'
    <2>1. \A y \in Msgs : Stays(y) => y \in Range(lines) /\ Stays(y)'
        BY <1>1, <1>8 DEF Stays
    <2>2. ASSUME NEW m \in Msgs, place'[m] \in Finished \cup {"stray"}, m \notin Range(lines)
          PROVE  \E y \in Range(lines) : Stays(y)' /\ id[m] < id[y]
        <3>1. place[m] \in Finished
            BY <1>4, <2>2
        <3> QED
            BY <1>8, <2>1, <2>2, <3>1 DEF TakenIsCovered
    <2>3. TakenIsCovered'
        BY <1>1, <1>2, <2>2 DEF TakenIsCovered
    <2>4. Numbered' \subseteq Numbered /\ \A m \in Numbered' : m \in Msgs /\ place'[m] \in Finished
        BY <1>2, <1>4 DEF Numbered, LinesAreWritten
    <2>5. ASSUME NEW m \in Numbered' PROVE id[m] < NextId
        <3>1. CASE m \in Range(lines)
            BY <1>3, <3>1
        <3>2. CASE m \notin Range(lines)
            <4>1. PICK y \in Range(lines) : id[m] < id[y]
                BY <2>2, <2>4, <2>5, <3>2
            <4>2. id[y] < NextId /\ id[m] \in Nat /\ id[y] \in Nat
                BY <1>2, <1>3, <2>4, <2>5 DEF LogOK
            <4> QED
                BY <1>3, <4>1, <4>2
        <3> QED
            BY <3>1, <3>2
    <2>6. IdsAreApart'
        BY <1>1, <1>8, <2>4, <2>5 DEF IdsAreApart
    <2> QED
        BY <2>3, <2>6
<1>9. ~shaken' => ~shaken
    BY <1>1
<1> QED
    BY <1>1, <1>6, <1>7, <1>8, <1>9 DEF ChatInv

LEMMA ChatStep ==
    ASSUME ChatInv, [ChatNext]_chatVars
    PROVE  ChatInv'
<1> USE DEF Appending, Finished, Holding
<1>o. place \in [Msgs -> Appending \cup Finished \cup {"idle", "dropped"}]
    BY DEF ChatInv, LogOK
<1>1. ASSUME NEW m \in Msgs, Measure(m) PROVE ChatInv'
    <2>1. PICK p \in {"full", "ready"} : place' = [place EXCEPT ![m] = p]
        BY <1>1 DEF Measure, Moves
    <2>2. place[m] = "numbered" /\ UNCHANGED <<seq, id, lines, size, tail, faults, shaken>>
        BY <1>1 DEF Measure, past, file
    <2> QED
        BY <2>1, <2>2, <1>o, ChatQuiet
<1>2. ASSUME NEW m \in Msgs, OpenLines(m) PROVE ChatInv'
    <2>1. \/ place[m] = "ready" /\ place' = [place EXCEPT ![m] = "opened"]
          \/ place[m] = "cleared" /\ place' = [place EXCEPT ![m] = "reopened"]
        BY <1>2 DEF OpenLines, Moves
    <2>2. UNCHANGED <<seq, id, lines, size, tail, faults, shaken>>
        BY <1>2 DEF OpenLines, past, file
    <2> QED
        BY <2>1, <2>2, <1>o, ChatQuiet
<1>3. ASSUME NEW m \in Msgs, LineFails(m) \/ LineTorn(m) PROVE ChatInv'
    <2>1. /\ place[m] \in Appending /\ place' = [place EXCEPT ![m] = "written"]
          /\ faults' = faults + 1 /\ UNCHANGED <<seq, id, size, shaken>>
          /\ lines' = lines \/ lines' = <<>>
          /\ tail' \in {tail, "part", "ruined"}
        BY <1>3 DEF LineFails, LineTorn, Moves, file
    <2>2. LogOK /\ LinesAreWritten /\ Range(lines) \subseteq Msgs
        BY RangeOfLines DEF ChatInv, LogOK
    <2>3. lines' \in Seq(Msgs) /\ Range(lines') \subseteq Range(lines)
        BY <2>1, <2>2, EmptySeq, RangeOfLines DEF LogOK
    <2>4. LogOK' /\ faults' # 0
        BY <2>1, <2>2, <2>3 DEF LogOK
    <2>5. \A x \in Msgs : x # m => place'[x] = place[x]
        BY <2>1, <1>o
    <2>6. LinesAreWritten'
        BY <2>1, <2>2, <2>3, <2>5, <1>o DEF LinesAreWritten
    <2> QED
        BY <2>4, <2>6 DEF ChatInv
<1>4. ASSUME NEW m \in Msgs, Push(m) \/ Send(m) \/ SenderLeaves(m) PROVE ChatInv'
    <2>1. PICK p \in {"pushed", "sent", "alone"} : place' = [place EXCEPT ![m] = p]
        BY <1>4 DEF Push, Send, SenderLeaves, Moves
    <2>2. place[m] \in Finished /\ UNCHANGED <<seq, id, lines, size, tail, faults, shaken>>
        BY <1>4 DEF Push, Send, SenderLeaves, past, file
    <2> QED
        BY <2>1, <2>2, <1>o, ChatQuiet
<1>5. ASSUME UNCHANGED <<log, past>> PROVE ChatInv'
    <2>1. UNCHANGED <<seq, id, lines, size, tail, place, faults, shaken>>
        BY <1>5 DEF log, past, file
    <2> QED
        BY <2>1, <1>o, ChatQuiet
<1>6. ASSUME NEW r \in Readers, ReaderStep(r) PROVE UNCHANGED <<log, past>>
    BY <1>6 DEF ReaderStep, Subscribe, ReadRing, ReadFile, Page, Poll, Receive
<1>7. CASE UNCHANGED chatVars
    BY <1>5, <1>7 DEF chatVars
<1> QED
    BY <1>1, <1>2, <1>3, <1>4, <1>5, <1>6, <1>7, TakeIdStep, RotateStep, WriteStep, RestartStep
    DEF ChatNext, MsgStep

LEMMA ChatStart == ChatInit => ChatInv
<1> SUFFICES ASSUME ChatInit PROVE ChatInv
    OBVIOUS
<1>1. lines \in Seq(Msgs) /\ Range(lines) = {}
    BY RangeOfLines DEF ChatInit, Range
<1>2. \A m \in Msgs : place[m] = "idle" /\ id[m] = 0
    BY DEF ChatInit
<1>3. Numbered = {}
    BY <1>2 DEF Numbered, Appending, Finished, Holding
<1> QED
    BY <1>1, <1>2, <1>3
    DEF ChatInit, ChatInv, LogOK, LinesAreWritten, IdsAreApart, TakenIsCovered,
        Appending, Finished, Holding

\* The invariant of ids and file, for any number of messages, readers and restarts,
\* and any caps.
THEOREM ChatInvariant == ChatSpec => []ChatInv
BY ChatStart, ChatStep, PTL DEF ChatSpec

\* No two messages that were seen have the same id, over any number of rotations and
\* restarts, but for the three things that IdsSurvive excludes.
THEOREM IdsAreUnique == ChatSpec => []IdsSurvive
<1>1. ChatInv => IdsSurvive
    BY DEF ChatInv, IdsSurvive, IdsAreApart, Numbered, Seen
<1> QED
    BY <1>1, ChatInvariant, PTL

-----------------------------------------------------------------------------
(* What the readers are shown.                                              *)

\* The newest n of a sequence are its end.
LEMMA NewestIs ==
    ASSUME NEW T, NEW s \in Seq(T), NEW n \in Nat \ {0}
    PROVE  /\ Newest(s, n) \in Seq(T)
           /\ Len(Newest(s, n)) \in Nat /\ Len(Newest(s, n)) <= Len(s) /\ Len(Newest(s, n)) <= n
           /\ \A k \in 1..Len(Newest(s, n)) : Newest(s, n)[k] = s[Len(s) - Len(Newest(s, n)) + k]
           /\ Len(s) <= n => Newest(s, n) = s
           /\ Len(s) > n => Len(Newest(s, n)) = n
<1>1. DOMAIN s = 1..Len(s) /\ Len(s) \in Nat
    BY LenProperties
<1>2. CASE Len(s) <= n
    <2>1. ~(Len(s) > n)
        BY <1>1, <1>2
    <2>2. Newest(s, n) = s
        BY <2>1 DEF Newest
    <2>3. ASSUME NEW k \in 1..Len(s) PROVE s[Len(s) - Len(s) + k] = s[k]
        <3>1. Len(s) - Len(s) + k = k
            BY <1>1
        <3> QED
            BY <3>1
    <2>4. Len(s) \in Nat /\ Len(s) <= Len(s) /\ ~(Len(s) > n) /\ Len(s) <= n
        BY <1>1, <1>2
    <2> QED
        BY <2>2, <2>3, <2>4
<1>3. CASE Len(s) > n
    <2> DEFINE m == Len(s) - n + 1
               t == SubSeq(s, m, Len(s))
    <2>1. m \in Int /\ Len(s) \in Int /\ m <= Len(s) /\ m >= 1 /\ Len(s) - m + 1 = n
        BY <1>1, <1>3
    <2>2. \A i \in m..Len(s) : s[i] \in T
        BY <1>1, <2>1, ElementOfSeq
    <2>3. /\ t \in Seq(T) /\ Len(t) = n
          /\ \A i \in 1..n : t[i] = s[m + i - 1]
        <3> HIDE DEF m
        <3> QED
            BY <2>1, <2>2, SubSeqProperties
    <2>4. Newest(s, n) = t
        BY <1>3 DEF Newest
    <2>5. \A i \in 1..n : m + i - 1 = Len(s) - n + i
        BY <1>1
    <2> QED
        BY <1>1, <1>3, <2>3, <2>4, <2>5
<1> QED
    BY <1>1, <1>2, <1>3

LEMMA NewestWithin ==
    ASSUME NEW T, NEW s \in Seq(T), NEW n \in Nat \ {0}
    PROVE  \A x \in Range(Newest(s, n)) : x \in Range(s)
<1> DEFINE t == Newest(s, n)
<1>1. /\ t \in Seq(T) /\ Len(t) \in Nat /\ Len(t) <= Len(s)
      /\ \A k \in 1..Len(t) : t[k] = s[Len(s) - Len(t) + k]
    BY NewestIs
<1> HIDE DEF t
<1>2. ASSUME NEW x \in Range(t) PROVE x \in Range(s)
    <2>1. PICK k \in 1..Len(t) : x = t[k]
        BY <1>1, <1>2, RangeIs
    <2>2. Len(s) \in Nat
        BY RangeIs
    <2>3. Len(s) - Len(t) + k \in 1..Len(s)
        BY <1>1, <2>2
    <2>4. x = s[Len(s) - Len(t) + k]
        BY <1>1, <2>1
    <2> QED
        BY <2>3, <2>4, RangeIs
<1> QED
    BY <1>2 DEF t

\* An ascending sequence begins with its least and ends with its greatest element.
LEMMA AscendingEnds ==
    ASSUME id \in [Msgs -> Nat], NEW s \in Seq(Msgs), Ascending(s), NEW x \in Range(s)
    PROVE  id[s[1]] <= id[x] /\ id[x] <= id[Last(s)]
<1>1. /\ DOMAIN s = 1..Len(s) /\ Len(s) \in Nat
      /\ \A i \in 1..Len(s) : s[i] \in Msgs /\ id[s[i]] \in Nat
    BY RangeIs, ElementOfSeq
<1>2. PICK i \in 1..Len(s) : x = s[i]
    BY RangeIs
<1>3. s # <<>> /\ Last(s) = s[Len(s)]
    BY <1>1, <1>2, RangeIs
<1>a. Len(s) \in Nat
    BY <1>1
<1>4. 1 \in 1..Len(s) /\ Len(s) \in 1..Len(s) /\ (i = 1 \/ 1 < i) /\ (i = Len(s) \/ i < Len(s))
    BY <1>a, SMTT(30)
<1>5. id[s[1]] = id[x] \/ id[s[1]] < id[x]
    BY <1>1, <1>2, <1>4, ZenonT(60) DEF Ascending
<1>6. id[Last(s)] = id[x] \/ id[x] < id[Last(s)]
    BY <1>1, <1>2, <1>3, <1>4, ZenonT(60) DEF Ascending
<1>7. id[s[1]] \in Nat /\ id[x] \in Nat /\ id[Last(s)] \in Nat
    BY <1>1, <1>2, <1>3, <1>4
<1> QED
    BY <1>5, <1>6, <1>7

\* The newest of an ascending sequence are all from the first of them on.
LEMMA NewestAscends ==
    ASSUME id \in [Msgs -> Nat], NEW s \in Seq(Msgs), Ascending(s), NEW n \in Nat \ {0}
    PROVE  /\ Ascending(Newest(s, n)) /\ Newest(s, n) \in Seq(Msgs)
           /\ \A x \in Range(Newest(s, n)) : x \in Range(s)
           /\ s # <<>> => Newest(s, n) # <<>> /\ Last(Newest(s, n)) = Last(s)
           /\ \A x \in Range(s) : Newest(s, n) # <<>> /\ id[x] >= id[Newest(s, n)[1]] => x \in Range(Newest(s, n))
<1> DEFINE t == Newest(s, n)
           d == Len(s) - Len(t)
<1>1. /\ t \in Seq(Msgs) /\ Len(t) \in Nat /\ Len(t) <= Len(s) /\ Len(t) <= n
      /\ \A k \in 1..Len(t) : t[k] = s[d + k]
      /\ Len(s) <= n => t = s
      /\ Len(s) > n => Len(t) = n
    BY NewestIs
<1>2. /\ DOMAIN s = 1..Len(s) /\ Len(s) \in Nat /\ DOMAIN t = 1..Len(t)
      /\ \A i \in 1..Len(s) : s[i] \in Msgs /\ id[s[i]] \in Nat
      /\ \A x : x \in Range(s) <=> \E i \in 1..Len(s) : x = s[i]
      /\ \A x : x \in Range(t) <=> \E i \in 1..Len(t) : x = t[i]
      /\ (s # <<>> <=> Len(s) > 0) /\ (t # <<>> <=> Len(t) > 0)
      /\ (s # <<>> => Last(s) = s[Len(s)]) /\ (t # <<>> => Last(t) = t[Len(t)])
    BY <1>1, RangeIs, ElementOfSeq, SMTT(30)
<1> HIDE DEF t
<1>a. Len(s) \in Nat /\ Len(t) \in Nat /\ Len(t) <= Len(s)
    BY <1>1, <1>2
<1>3. d \in Nat /\ d + Len(t) = Len(s)
    BY <1>a
<1>b. \A i \in 1..Len(t) : d + i \in 1..Len(s)
    BY <1>a
<1>c. Len(s) > 0 => Len(t) > 0
    <2>1. n \in Nat /\ n > 0
        OBVIOUS
    <2>2. Len(s) > n => Len(t) = n
        BY <1>1
    <2>3. Len(s) <= n => Len(t) = Len(s)
        BY <1>1
    <2> QED
        BY <1>a, <2>1, <2>2, <2>3
<1>4. Ascending(t)
    <2> SUFFICES ASSUME NEW i \in 1..Len(t), NEW j \in 1..Len(t), i < j PROVE id[t[i]] < id[t[j]]
        BY <1>2 DEF Ascending
    <2>1. d + i \in 1..Len(s) /\ d + j \in 1..Len(s) /\ d + i < d + j
        BY <1>a, <1>b
    <2>2. t[i] = s[d + i] /\ t[j] = s[d + j]
        BY <1>1
    <2> HIDE DEF d
    <2> QED
        BY <1>2, <2>1, <2>2 DEF Ascending
<1>5. \A x \in Range(t) : x \in Range(s)
    <2> SUFFICES ASSUME NEW x \in Range(t) PROVE x \in Range(s)
        OBVIOUS
    <2>1. PICK i \in 1..Len(t) : x = t[i]
        BY <1>2
    <2>2. d + i \in 1..Len(s) /\ x = s[d + i]
        BY <1>b, <1>1, <2>1
    <2> HIDE DEF d
    <2> QED
        BY <1>2, <2>2
<1>6. ASSUME s # <<>> PROVE t # <<>> /\ Last(t) = Last(s)
    <2>1. Len(t) > 0
        BY <1>2, <1>6, <1>c
    <2>2. Len(t) \in 1..Len(t)
        BY <1>a, <2>1
    <2>3. t[Len(t)] = s[d + Len(t)]
        BY <1>1, <2>2
    <2> HIDE DEF d
    <2> QED
        BY <1>2, <1>3, <1>6, <2>1, <2>3
<1>7. ASSUME NEW x \in Range(s), t # <<>>, id[x] >= id[t[1]] PROVE x \in Range(t)
    <2>1. PICK i \in 1..Len(s) : x = s[i]
        BY <1>2
    <2>a. Len(t) > 0
        BY <1>2, <1>7
    <2>b. 1 \in 1..Len(t)
        BY <1>a, <2>a
    <2>2. t[1] = s[d + 1] /\ d + 1 \in 1..Len(s)
        BY <1>1, <1>b, <2>b
    <2>3. ~(i < d + 1)
        <3>1. i < d + 1 => id[s[i]] < id[s[d + 1]]
            <4> HIDE DEF d
            <4> QED
                BY <1>2, <2>2 DEF Ascending
        <3>2. id[s[i]] \in Nat /\ id[s[d + 1]] \in Nat
            BY <1>2, <2>2
        <3> HIDE DEF d
        <3> QED
            BY <1>7, <2>1, <2>2, <3>1, <3>2
    <2>4. i - d \in 1..Len(t) /\ d + (i - d) = i
        BY <1>a, <2>3
    <2>5. x = t[i - d]
        BY <1>1, <2>1, <2>4
    <2> HIDE DEF d
    <2> QED
        BY <1>2, <2>4, <2>5
<1> QED
    BY <1>1, <1>4, <1>5, <1>6, <1>7 DEF t

\* A filter keeps the order.
LEMMA FilterAscends ==
    ASSUME NEW s \in Seq(Msgs), Ascending(s), NEW S
    PROVE  /\ Ascending(Filter(s, S)) /\ Filter(s, S) \in Seq(Msgs)
           /\ \A x : x \in Range(Filter(s, S)) <=> x \in Range(s) /\ x \in S
<1> DEFINE f == Filter(s, S)
           P == PositionsOf(s, S)
<1>1. /\ f \in Seq(Msgs) /\ DOMAIN f = 1..Len(f)
      /\ \A k \in 1..Len(f) : Nth(P, k) \in P /\ f[k] = s[Nth(P, k)]
      /\ \A k, l \in 1..Len(f) : k < l => Nth(P, k) < Nth(P, l)
      /\ \A i \in P : \E k \in 1..Len(f) : f[k] = s[i]
    BY FilterIs
<1>2. DOMAIN s = 1..Len(s) /\ \A i : i \in P <=> i \in 1..Len(s) /\ s[i] \in S
    BY PositionsAre
<1> HIDE DEF f, P
<1>3. Ascending(f)
    BY <1>1, <1>2 DEF Ascending
<1>4. ASSUME NEW x PROVE x \in Range(f) <=> x \in Range(s) /\ x \in S
    <2>1. x \in Range(s) <=> \E i \in 1..Len(s) : x = s[i]
        BY RangeIs
    <2>2. x \in Range(f) <=> \E k \in 1..Len(f) : x = f[k]
        BY <1>1, RangeIs
    <2> QED
        BY <1>1, <1>2, <2>1, <2>2
<1> QED
    BY <1>1, <1>3, <1>4 DEF f

\* Two ascending sequences make one, if the second begins above the end of the first.
LEMMA JoinedAscends ==
    ASSUME NEW s \in Seq(Msgs), NEW t \in Seq(Msgs), Ascending(s), Ascending(t),
           \A x \in Range(s), y \in Range(t) : id[x] < id[y]
    PROVE  Ascending(s \o t)
<1>1. /\ DOMAIN s = 1..Len(s) /\ Len(s) \in Nat /\ DOMAIN t = 1..Len(t) /\ Len(t) \in Nat
      /\ \A x : x \in Range(s) <=> \E i \in 1..Len(s) : x = s[i]
      /\ \A x : x \in Range(t) <=> \E i \in 1..Len(t) : x = t[i]
    BY RangeIs
<1>2. /\ s \o t \in Seq(Msgs) /\ Len(s \o t) = Len(s) + Len(t)
      /\ \A i \in 1..(Len(s) + Len(t)) : (s \o t)[i] = IF i <= Len(s) THEN s[i] ELSE t[i - Len(s)]
    BY ConcatProperties
<1>3. DOMAIN (s \o t) = 1..(Len(s) + Len(t))
    BY <1>2, LenProperties
<1> SUFFICES ASSUME NEW i \in 1..(Len(s) + Len(t)), NEW j \in 1..(Len(s) + Len(t)), i < j
             PROVE  id[(s \o t)[i]] < id[(s \o t)[j]]
    BY <1>3 DEF Ascending
<1>4. CASE j <= Len(s)
    <2>1. i \in 1..Len(s) /\ j \in 1..Len(s) /\ (s \o t)[i] = s[i] /\ (s \o t)[j] = s[j]
        BY <1>1, <1>2, <1>4
    <2> QED
        BY <1>1, <2>1 DEF Ascending
<1>5. CASE i <= Len(s) /\ j > Len(s)
    <2>1. i \in 1..Len(s) /\ j - Len(s) \in 1..Len(t) /\ (s \o t)[i] = s[i] /\ (s \o t)[j] = t[j - Len(s)]
        BY <1>1, <1>2, <1>5
    <2> QED
        BY <1>1, <2>1
<1>6. CASE i > Len(s)
    <2>1. /\ i - Len(s) \in 1..Len(t) /\ j - Len(s) \in 1..Len(t) /\ i - Len(s) < j - Len(s)
          /\ (s \o t)[i] = t[i - Len(s)] /\ (s \o t)[j] = t[j - Len(s)]
        BY <1>1, <1>2, <1>6
    <2> QED
        BY <1>1, <2>1 DEF Ascending
<1> QED
    BY <1>1, <1>4, <1>5, <1>6

\* So does one more element at the end, and one less at the head.
LEMMA AppendAscends ==
    ASSUME NEW s \in Seq(Msgs), Ascending(s), NEW m \in Msgs, \A x \in Range(s) : id[x] < id[m]
    PROVE  Ascending(Append(s, m))
<1>1. /\ DOMAIN s = 1..Len(s) /\ Len(s) \in Nat
      /\ \A x : x \in Range(s) <=> \E i \in 1..Len(s) : x = s[i]
    BY RangeIs
<1>2. /\ Append(s, m) \in Seq(Msgs) /\ Len(Append(s, m)) = Len(s) + 1
      /\ \A i \in 1..Len(s) : Append(s, m)[i] = s[i]
      /\ Append(s, m)[Len(s) + 1] = m
    BY AppendProperties
<1>3. DOMAIN Append(s, m) = 1..(Len(s) + 1)
    BY <1>2, LenProperties
<1> SUFFICES ASSUME NEW i \in 1..(Len(s) + 1), NEW j \in 1..(Len(s) + 1), i < j
             PROVE  id[Append(s, m)[i]] < id[Append(s, m)[j]]
    BY <1>3 DEF Ascending
<1>4. i \in 1..Len(s) /\ (j \in 1..Len(s) \/ j = Len(s) + 1)
    BY <1>1
<1> QED
    BY <1>1, <1>2, <1>4 DEF Ascending

LEMMA TailAscends ==
    ASSUME NEW s \in Seq(Msgs), s # <<>>
    PROVE  /\ Tail(s) \in Seq(Msgs) /\ \A x \in Range(Tail(s)) : x \in Range(s)
           /\ Ascending(s) => Ascending(Tail(s))
           /\ \A x \in Range(s) : x \in Range(Tail(s)) \/ x = s[1]
           /\ Tail(s) # <<>> => Len(s) > 1 /\ Tail(s)[1] = s[2]
<1>1. /\ DOMAIN s = 1..Len(s) /\ Len(s) \in Nat /\ Len(s) > 0
      /\ \A x : x \in Range(s) <=> \E i \in 1..Len(s) : x = s[i]
    BY RangeIs
<1>2. /\ Tail(s) \in Seq(Msgs) /\ Len(Tail(s)) = Len(s) - 1
      /\ \A i \in 1..(Len(s) - 1) : Tail(s)[i] = s[i + 1]
    BY HeadTailProperties
<1>3. DOMAIN Tail(s) = 1..(Len(s) - 1) /\ \A x : x \in Range(Tail(s)) <=> \E i \in 1..(Len(s) - 1) : x = Tail(s)[i]
    <2>1. /\ DOMAIN Tail(s) = 1..Len(Tail(s))
          /\ \A x : x \in Range(Tail(s)) <=> \E i \in 1..Len(Tail(s)) : x = Tail(s)[i]
        BY <1>2, RangeIs
    <2> QED
        BY <1>2, <2>1
<1>4. \A i \in 1..(Len(s) - 1) : i + 1 \in 1..Len(s)
    BY <1>1
<1>5. \A x \in Range(Tail(s)) : x \in Range(s)
    BY <1>1, <1>2, <1>3, <1>4
<1>6. ASSUME Ascending(s) PROVE Ascending(Tail(s))
    <2> SUFFICES ASSUME NEW i \in 1..(Len(s) - 1), NEW j \in 1..(Len(s) - 1), i < j
                 PROVE  id[Tail(s)[i]] < id[Tail(s)[j]]
        BY <1>3 DEF Ascending
    <2>1. i + 1 < j + 1
        OBVIOUS
    <2> QED
        BY <1>1, <1>2, <1>4, <1>6, <2>1 DEF Ascending
<1>7. ASSUME NEW x \in Range(s) PROVE x \in Range(Tail(s)) \/ x = s[1]
    <2>1. PICK i \in 1..Len(s) : x = s[i]
        BY <1>1
    <2>2. i = 1 \/ (i - 1 \in 1..(Len(s) - 1) /\ (i - 1) + 1 = i)
        BY <1>1
    <2> QED
        BY <1>2, <1>3, <2>1, <2>2
<1>8. ASSUME Tail(s) # <<>> PROVE Len(s) > 1 /\ Tail(s)[1] = s[2]
    <2>1. Len(Tail(s)) > 0
        BY <1>2, <1>8, RangeIs
    <2>2. 1 \in 1..(Len(s) - 1) /\ 1 + 1 = 2
        BY <1>1, <1>2, <2>1
    <2> QED
        BY <1>1, <1>2, <2>2
<1> QED
    BY <1>2, <1>5, <1>6, <1>7, <1>8

\* The sort places the lines one each.
LEMMA PlacesApart ==
    ASSUME id \in [Msgs -> Nat], NEW s \in Seq(Msgs),
           NEW i \in DOMAIN s, NEW j \in DOMAIN s,
           id[s[i]] < id[s[j]] \/ (id[s[i]] = id[s[j]] /\ i < j)
    PROVE  SortedPlace(s, i) \in 1..Len(s) /\ SortedPlace(s, i) < SortedPlace(s, j)
<1> DEFINE I == {k \in DOMAIN s : id[s[k]] < id[s[i]] \/ (id[s[k]] = id[s[i]] /\ k <= i)}
           J == {k \in DOMAIN s : id[s[k]] < id[s[j]] \/ (id[s[k]] = id[s[j]] /\ k <= j)}
<1>1. DOMAIN s = 1..Len(s) /\ Len(s) \in Nat /\ \A k \in DOMAIN s : s[k] \in Msgs /\ id[s[k]] \in Nat
    BY RangeIs, ElementOfSeq
<1>2. IsFiniteSet(DOMAIN s) /\ Cardinality(DOMAIN s) = Len(s)
    <2>1. DOMAIN s = 1..Len(s) /\ Len(s) \in Nat
        BY RangeIs
    <2>2. IsFiniteSet(1..Len(s)) /\ Cardinality(1..Len(s)) = Len(s)
        BY <2>1, IntervalSize
    <2> QED
        BY <2>1, <2>2
<1>3. IsFiniteSet(J) /\ IsFiniteSet(I) /\ Cardinality(I) <= Len(s)
    <2>1. I \in SUBSET DOMAIN s /\ J \in SUBSET DOMAIN s
        OBVIOUS
    <2> HIDE DEF I, J
    <2> QED
        BY <1>2, <2>1, FS_Subset
<1>4. I \subseteq J
    <2> SUFFICES ASSUME NEW k \in DOMAIN s, id[s[k]] < id[s[i]] \/ (id[s[k]] = id[s[i]] /\ k <= i)
                 PROVE  id[s[k]] < id[s[j]] \/ (id[s[k]] = id[s[j]] /\ k <= j)
        OBVIOUS
    <2>1. id[s[k]] \in Nat /\ id[s[i]] \in Nat /\ id[s[j]] \in Nat /\ i \in Nat /\ j \in Nat /\ k \in Nat
        BY <1>1
    <2> QED
        BY <2>1
<1>5. i \in I
    BY <1>1
<1>6. j \in J /\ j \notin I
    <2>1. id[s[i]] \in Nat /\ id[s[j]] \in Nat /\ i \in Nat /\ j \in Nat
        BY <1>1
    <2> QED
        BY <2>1
<1> HIDE DEF I, J
<1>7. Cardinality(I) \in Nat /\ Cardinality(J) \in Nat /\ Cardinality(I) # 0
    BY <1>3, <1>5, FS_CardinalityType, FS_EmptySet
<1>8. Cardinality(I) <= Cardinality(J) /\ Cardinality(I) # Cardinality(J)
    BY <1>3, <1>4, <1>6, FS_Subset
<1>9. SortedPlace(s, i) = Cardinality(I) /\ SortedPlace(s, j) = Cardinality(J)
    BY DEF SortedPlace, I, J
<1> QED
    BY <1>1, <1>3, <1>7, <1>8, <1>9

\* So what is sorted are the same messages.
LEMMA SortIs ==
    ASSUME id \in [Msgs -> Nat], NEW s \in Seq(Msgs)
    PROVE  /\ ById(s) \in Seq(Msgs) /\ Len(ById(s)) = Len(s)
           /\ \A x \in Range(ById(s)) : x \in Range(s)
<1>1. DOMAIN s = 1..Len(s) /\ Len(s) \in Nat /\ \A k \in DOMAIN s : s[k] \in Msgs /\ id[s[k]] \in Nat
    BY RangeIs, ElementOfSeq
<1>2. IsFiniteSet(DOMAIN s) /\ Cardinality(DOMAIN s) = Len(s)
    <2>1. DOMAIN s = 1..Len(s) /\ Len(s) \in Nat
        BY RangeIs
    <2>2. IsFiniteSet(1..Len(s)) /\ Cardinality(1..Len(s)) = Len(s)
        BY <2>1, IntervalSize
    <2> QED
        BY <2>1, <2>2
<1> DEFINE f == [i \in DOMAIN s |-> SortedPlace(s, i)]
           e == [k \in 1..Len(s) |-> CHOOSE i \in DOMAIN s : SortedPlace(s, i) = k]
<1>3. ASSUME NEW i \in DOMAIN s, NEW j \in DOMAIN s, SortedPlace(s, i) = SortedPlace(s, j)
      PROVE  i = j
    <2> SUFFICES ASSUME i # j PROVE FALSE
        OBVIOUS
    <2>1. \/ id[s[i]] < id[s[j]] \/ (id[s[i]] = id[s[j]] /\ i < j)
          \/ id[s[j]] < id[s[i]] \/ (id[s[j]] = id[s[i]] /\ j < i)
        <3>1. id[s[i]] \in Nat /\ id[s[j]] \in Nat /\ i \in Nat /\ j \in Nat
            BY <1>1
        <3> QED
            BY <3>1
    <2>2. SortedPlace(s, i) \in Nat /\ (SortedPlace(s, i) < SortedPlace(s, j) \/ SortedPlace(s, j) < SortedPlace(s, i))
        BY <1>3, <2>1, PlacesApart
    <2> QED
        BY <1>3, <2>2
<1>4. ASSUME NEW i \in DOMAIN s PROVE SortedPlace(s, i) \in 1..Len(s)
    <2> DEFINE I == {k \in DOMAIN s : id[s[k]] < id[s[i]] \/ (id[s[k]] = id[s[i]] /\ k <= i)}
    <2>1. I \in SUBSET DOMAIN s /\ i \in I
        BY <1>1
    <2>2. SortedPlace(s, i) = Cardinality(I)
        BY DEF SortedPlace
    <2> HIDE DEF I
    <2>3. IsFiniteSet(I) /\ Cardinality(I) <= Len(s)
        BY <1>2, <2>1, FS_Subset
    <2>4. Cardinality(I) \in Nat /\ Cardinality(I) # 0
        BY <2>1, <2>3, FS_CardinalityType, FS_EmptySet
    <2> QED
        BY <1>1, <2>2, <2>3, <2>4
<1>5. f \in [DOMAIN s -> 1..Cardinality(DOMAIN s)] /\ \A i, j \in DOMAIN s : f[i] = f[j] => i = j
    BY <1>2, <1>3, <1>4
<1>6. \A k \in 1..Len(s) : e[k] \in DOMAIN s
    <2> SUFFICES ASSUME NEW k \in 1..Len(s) PROVE e[k] \in DOMAIN s
        OBVIOUS
    <2>1. \E i \in DOMAIN s : f[i] = k
        <3> HIDE DEF f
        <3> QED
            BY <1>2, <1>5, OneToOneIsOnto
    <2>2. \E i \in DOMAIN s : SortedPlace(s, i) = k
        BY <2>1
    <2> QED
        BY <2>2
<1>7. ById(s) = [k \in 1..Len(s) |-> s[e[k]]]
    BY DEF ById
<1> HIDE DEF e, f
<1>8. ById(s) \in Seq(Msgs)
    <2>1. \A k \in 1..Len(s) : s[e[k]] \in Msgs
        BY <1>1, <1>6
    <2> QED
        BY <1>1, <1>7, <2>1, IsASeq
<1>9. Len(ById(s)) = Len(s)
    BY <1>1, <1>7, <1>8, LenProperties
<1>10. ASSUME NEW x \in Range(ById(s)) PROVE x \in Range(s)
    <2>1. PICK k \in 1..Len(s) : x = ById(s)[k]
        BY <1>8, <1>9, <1>10, RangeIs
    <2>2. x = s[e[k]] /\ e[k] \in 1..Len(s)
        BY <1>1, <1>6, <1>7, <2>1
    <2> QED
        BY <2>2, RangeIs
<1> QED
    BY <1>8, <1>9, <1>10

\* and what ascends already stays as it is.
LEMMA SortedAlready ==
    ASSUME id \in [Msgs -> Nat], NEW s \in Seq(Msgs), Ascending(s)
    PROVE  ById(s) = s
<1>1. DOMAIN s = 1..Len(s) /\ Len(s) \in Nat /\ \A k \in DOMAIN s : s[k] \in Msgs /\ id[s[k]] \in Nat
    BY RangeIs, ElementOfSeq
<1>2. ASSUME NEW i \in DOMAIN s PROVE SortedPlace(s, i) = i
    <2> DEFINE I == {k \in DOMAIN s : id[s[k]] < id[s[i]] \/ (id[s[k]] = id[s[i]] /\ k <= i)}
    <2>1. ASSUME NEW k \in DOMAIN s
          PROVE  id[s[k]] < id[s[i]] \/ (id[s[k]] = id[s[i]] /\ k <= i) <=> k <= i
        <3>1. k < i \/ k = i \/ i < k
            BY <1>1
        <3>2. (k < i => id[s[k]] < id[s[i]]) /\ (i < k => id[s[i]] < id[s[k]])
            BY DEF Ascending
        <3>3. id[s[k]] \in Nat /\ id[s[i]] \in Nat /\ k \in Nat /\ i \in Nat
            BY <1>1
        <3> QED
            BY <3>1, <3>2, <3>3
    <2>2. I = 1..i
        <3>1. \A k \in 1..Len(s) : k <= i <=> k \in 1..i
            BY <1>1
        <3>2. i \in 1..Len(s)
            BY <1>1
        <3>3. \A k \in 1..i : k \in 1..Len(s)
            BY <1>1, <3>2
        <3> QED
            BY <1>1, <2>1, <3>1, <3>3
    <2>3. Cardinality(1..i) = i
        BY <1>1, FS_Interval
    <2> QED
        BY <2>2, <2>3 DEF SortedPlace
<1>3. \A k \in 1..Len(s) : (CHOOSE i \in DOMAIN s : SortedPlace(s, i) = k) = k
    BY <1>1, <1>2
<1>4. ById(s) \in Seq(Msgs) /\ Len(ById(s)) = Len(s)
    BY SortIs
<1>5. \A k \in 1..Len(s) : ById(s)[k] = s[k]
    BY <1>3 DEF ById
<1> QED
    BY <1>4, <1>5, SeqEqual

\* A page is made of lines of the file.
LEMMA PageIsOfFile ==
    ASSUME LogOK, ChatAssumption, NEW first
    PROVE  LET all == ById(LinesBefore(first))
           IN  /\ all \in Seq(Msgs) /\ Newest(all, HistoryCap) \in Seq(Msgs)
               /\ Len(all) \in Nat
               /\ \A x \in Range(Newest(all, HistoryCap)) : x \in Range(lines) /\ id[x] < first
<1> DEFINE all == ById(LinesBefore(first))
           new == Newest(all, HistoryCap)
<1>1. /\ LinesBefore(first) \in Seq(Msgs)
      /\ \A x \in Range(LinesBefore(first)) : x \in Range(lines) /\ id[x] < first
    <2> DEFINE S == {m \in Msgs : InThread(m) /\ id[m] < first}
    <2>1. LinesBefore(first) = Filter(lines, S)
        BY DEF LinesBefore
    <2> HIDE DEF S
    <2>2. lines \in Seq(Msgs)
        BY DEF LogOK
    <2>3. Filter(lines, S) \in Seq(Msgs)
        BY <2>2, FilterIs
    <2>4. \A k \in DOMAIN Filter(lines, S) : \E i \in DOMAIN lines : lines[i] \in S /\ Filter(lines, S)[k] = lines[i]
        BY <2>2, FilterElements
    <2> QED
        BY <2>1, <2>3, <2>4 DEF Range, S
<1>2. all \in Seq(Msgs) /\ \A x \in Range(all) : x \in Range(LinesBefore(first))
    BY <1>1, SortIs DEF LogOK
<1> HIDE DEF all
<1>3. HistoryCap \in Nat \ {0}
    BY DEF ChatAssumption
<1>4. /\ new \in Seq(Msgs) /\ Len(new) \in Nat /\ Len(new) <= Len(all)
      /\ \A k \in 1..Len(new) : new[k] = all[Len(all) - Len(new) + k]
    BY <1>2, <1>3, NewestIs
<1>5. ASSUME NEW x \in Range(new) PROVE x \in Range(all)
    <2>1. PICK k \in 1..Len(new) : x = new[k]
        BY <1>4, <1>5, RangeIs
    <2>2. Len(all) \in Nat
        BY <1>2, RangeIs
    <2>3. Len(all) - Len(new) + k \in 1..Len(all)
        BY <1>4, <2>2
    <2>4. x = all[Len(all) - Len(new) + k]
        BY <1>4, <2>1
    <2> QED
        BY <1>2, <2>3, <2>4, RangeIs
<1> QED
    BY <1>1, <1>2, <1>4, <1>5, RangeIs DEF all

\* What api_messages answers is of the ring.
LEMMA AnswerIsOfRing ==
    ASSUME ReadersOK, ChatAssumption, NEW since
    PROVE  /\ Matching(since) \in Seq(Msgs) /\ Newest(Matching(since), PageCap) \in Seq(Msgs)
           /\ \A x \in Range(Newest(Matching(since), PageCap)) : x \in Range(ring)
<1> DEFINE all == Matching(since)
           new == Newest(all, PageCap)
<1>1. /\ all \in Seq(Msgs)
      /\ \A x \in Range(all) : x \in Range(ring)
    <2> DEFINE S == {m \in Msgs : InThread(m) /\ id[m] > since}
    <2>1. all = Filter(ring, S)
        BY DEF Matching
    <2> HIDE DEF S, all
    <2>2. ring \in Seq(Msgs)
        BY DEF ReadersOK
    <2>3. Filter(ring, S) \in Seq(Msgs)
        BY <2>2, FilterIs
    <2>4. \A k \in DOMAIN Filter(ring, S) : \E i \in DOMAIN ring : Filter(ring, S)[k] = ring[i]
        BY <2>2, FilterElements
    <2> QED
        BY <2>1, <2>3, <2>4 DEF Range
<1> HIDE DEF all
<1>3. PageCap \in Nat \ {0}
    BY DEF ChatAssumption
<1>4. /\ new \in Seq(Msgs) /\ Len(new) \in Nat /\ Len(new) <= Len(all)
      /\ \A k \in 1..Len(new) : new[k] = all[Len(all) - Len(new) + k]
    BY <1>1, <1>3, NewestIs
<1>5. ASSUME NEW x \in Range(new) PROVE x \in Range(all)
    <2>1. PICK k \in 1..Len(new) : x = new[k]
        BY <1>4, <1>5, RangeIs
    <2>2. Len(all) \in Nat
        BY <1>1, RangeIs
    <2>3. Len(all) - Len(new) + k \in 1..Len(all)
        BY <1>4, <2>2
    <2>4. x = all[Len(all) - Len(new) + k]
        BY <1>4, <2>1
    <2> QED
        BY <1>1, <2>3, <2>4, RangeIs
<1> QED
    BY <1>1, <1>4, <1>5 DEF all

\* What a request gives to its reader: nothing of its view goes, and what comes is
\* of the ring or of the file.
Gives(r) ==
    /\ shown' \in [Readers -> Seq(Msgs)] /\ \A s \in Readers \ {r} : shown'[s] = shown[s]
    /\ \A x \in Range(shown'[r]) :
        \/ x \in Range(shown[r]) \cup Range(ring)
        \/ x \in Range(lines) /\ shown[r] # <<>> /\ id[x] < id[shown[r][1]]
    /\ at[r] = "ready" /\ shown[r] # <<>> => shown'[r] # <<>>
    /\ at[r] = "ready" => \A x \in Range(shown[r]) : x \in Range(shown'[r])

LEMMA PageGives ==
    ASSUME LogOK, ReadersOK, ChatAssumption, NEW r \in Readers, Page(r)
    PROVE  Gives(r)
<1> DEFINE new == Newest(ById(LinesBefore(id[shown[r][1]])), HistoryCap)
<1>1. shown' = [shown EXCEPT ![r] = new \o @]
    BY DEF Page
<1>2. new \in Seq(Msgs) /\ \A x \in Range(new) : x \in Range(lines) /\ id[x] < id[shown[r][1]]
    BY PageIsOfFile
<1> HIDE DEF new
<1>3. shown \in [Readers -> Seq(Msgs)]
    BY DEF ReadersOK
<1>4. new \o shown[r] \in Seq(Msgs) /\ Range(new \o shown[r]) = Range(new) \cup Range(shown[r])
    BY <1>2, <1>3, ConcatProperties, RangeConcatenation
<1>5. shown'[r] = new \o shown[r] /\ (\A s \in Readers \ {r} : shown'[s] = shown[s])
      /\ shown' \in [Readers -> Seq(Msgs)]
    BY <1>1, <1>3, <1>4
<1>6. shown[r] # <<>>
    BY DEF Page, ReadersOK
<1>7. new \o shown[r] # <<>>
    BY <1>2, <1>3, <1>6, ConcatEqualIffEmpty
<1> QED
    BY <1>2, <1>4, <1>5, <1>6, <1>7 DEF Gives

LEMMA PollGives ==
    ASSUME ReadersOK, ChatAssumption, NEW r \in Readers, Poll(r)
    PROVE  Gives(r)
<1> DEFINE new == Newest(Matching(id[Last(shown[r])]), PageCap)
<1>1. shown' = [shown EXCEPT ![r] = @ \o new]
    BY DEF Poll
<1>2. new \in Seq(Msgs) /\ \A x \in Range(new) : x \in Range(ring)
    BY AnswerIsOfRing
<1> HIDE DEF new
<1>3. shown \in [Readers -> Seq(Msgs)]
    BY DEF ReadersOK
<1>4. shown[r] \o new \in Seq(Msgs) /\ Range(shown[r] \o new) = Range(shown[r]) \cup Range(new)
    BY <1>2, <1>3, ConcatProperties, RangeConcatenation
<1>5. shown'[r] = shown[r] \o new /\ (\A s \in Readers \ {r} : shown'[s] = shown[s])
      /\ shown' \in [Readers -> Seq(Msgs)]
    BY <1>1, <1>3, <1>4
<1>6. shown[r] # <<>> => shown[r] \o new # <<>>
    BY <1>2, <1>3, ConcatEqualIffEmpty
<1> QED
    BY <1>2, <1>4, <1>5, <1>6 DEF Gives

LEMMA ReadRingGives ==
    ASSUME ReadersOK, ChatAssumption, NEW r \in Readers, ReadRing(r)
    PROVE  Gives(r) /\ shown'[r] = Newest(Matching(0), PageCap)
<1> DEFINE new == Newest(Matching(0), PageCap)
<1>1. shown' = [shown EXCEPT ![r] = new] /\ at[r] = "open"
    BY DEF ReadRing
<1>2. new \in Seq(Msgs) /\ \A x \in Range(new) : x \in Range(ring)
    BY AnswerIsOfRing
<1> HIDE DEF new
<1>3. shown \in [Readers -> Seq(Msgs)]
    BY DEF ReadersOK
<1>5. shown'[r] = new /\ (\A s \in Readers \ {r} : shown'[s] = shown[s])
      /\ shown' \in [Readers -> Seq(Msgs)]
    BY <1>1, <1>2, <1>3
<1> QED
    BY <1>1, <1>2, <1>5 DEF Gives, new

LEMMA ReadersType ==
    ASSUME LogOK, ReadersOK, ChatAssumption, [ChatNext]_chatVars
    PROVE  ReadersOK'
<1>1. ASSUME NEW m \in Msgs, TakeId(m) \/ Measure(m) \/ Rotate(m) \/ OpenLines(m) \/ Write(m) \/ LineFails(m) \/ LineTorn(m) \/ SenderLeaves(m)
      PROVE  ReadersOK'
    BY <1>1 DEF TakeId, Measure, Rotate, OpenLines, Write, LineFails, LineTorn, SenderLeaves,
       ReadersOK, reader
<1>2. ASSUME NEW m \in Msgs, Push(m) PROVE ReadersOK'
    <2>1. ring \in Seq(Msgs) /\ ring' = Append(IF Len(ring) >= RingCap THEN Tail(ring) ELSE ring, m)
        BY <1>2 DEF Push, ReadersOK
    <2>2. RingCap \in Nat \ {0}
        BY DEF ChatAssumption
    <2>3. Len(ring) >= RingCap => ring # <<>>
        BY <2>1, <2>2, EmptySeq
    <2>4. Len(ring) >= RingCap => Tail(ring) \in Seq(Msgs)
        BY <2>1, <2>3, HeadTailProperties
    <2>5. ring' \in Seq(Msgs)
        BY <2>1, <2>4, AppendProperties
    <2>6. UNCHANGED <<bus, reader>>
        BY <1>2 DEF Push
    <2> QED
        BY <2>5, <2>6 DEF ReadersOK, reader
<1>3. ASSUME NEW m \in Msgs, Send(m) PROVE ReadersOK'
    <2>1. bus \in Seq(Msgs) /\ bus' = Append(bus, m) /\ UNCHANGED <<ring, reader>>
        BY <1>3 DEF Send, ReadersOK
    <2>2. bus' \in Seq(Msgs) /\ Len(bus') = Len(bus) + 1 /\ Len(bus) \in Nat
        BY <2>1, AppendProperties, LenProperties
    <2>3. \A r \in Readers : next[r] \in 1..(Len(bus) + 1)
        BY DEF ReadersOK
    <2>4. \A r \in Readers : next[r] \in 1..(Len(bus') + 1)
        BY <2>2, <2>3
    <2> QED
        BY <2>1, <2>2, <2>4 DEF ReadersOK, reader
<1>4. ASSUME Restart PROVE ReadersOK'
    <2>1. ring' = Newest(lines, RingCap) /\ bus' = <<>> /\ ReadersReset
        BY <1>4 DEF Restart
    <2>2. RingCap \in Nat \ {0} /\ lines \in Seq(Msgs)
        BY DEF ChatAssumption, LogOK
    <2>3. ring' \in Seq(Msgs)
        BY <2>1, <2>2, NewestIs
    <2>4. bus' \in Seq(Msgs) /\ Len(bus') = 0
        BY <2>1, EmptySeq
    <2>5. <<>> \in Seq(Msgs)
        BY EmptySeq
    <2> QED
        BY <2>1, <2>3, <2>4, <2>5 DEF ReadersOK, ReadersReset
<1>5. ASSUME NEW r \in Readers, Subscribe(r) PROVE ReadersOK'
    <2>1. Len(bus) \in Nat
        BY LenProperties DEF ReadersOK
    <2>2. /\ at' = [at EXCEPT ![r] = "open"] /\ next' = [next EXCEPT ![r] = Len(bus) + 1]
          /\ UNCHANGED <<ring, bus, shown, older, heard, left>>
        BY <1>5 DEF Subscribe, log, file
    <2>3. Len(bus) + 1 \in 1..(Len(bus) + 1) /\ Len(bus) + 1 \in Nat
        BY <2>1
    <2> QED
        BY <2>2, <2>3 DEF ReadersOK
<1>6. ASSUME NEW r \in Readers, ReadRing(r) PROVE ReadersOK'
    <2>1. shown' \in [Readers -> Seq(Msgs)]
        BY <1>6, ReadRingGives DEF Gives
    <2> DEFINE msgs == Newest(Matching(0), PageCap)
    <2>2. PICK a \in BOOLEAN, o \in BOOLEAN, l \in SUBSET Msgs :
             /\ at' = [at EXCEPT ![r] = IF msgs = <<>> \/ o THEN "ready" ELSE "reading"]
             /\ older' = [older EXCEPT ![r] = o]
             /\ o => msgs # <<>>
             /\ left' = [left EXCEPT ![r] = l]
        BY <1>6 DEF ReadRing, Before
    <2> HIDE DEF msgs
    <2>3. UNCHANGED <<ring, bus, next, heard>> /\ shown'[r] = msgs /\ \A q \in Readers \ {r} : shown'[q] = shown[q]
        BY <1>6, ReadRingGives DEF ReadRing, log, file, msgs, Gives
    <2>4. \A q \in Readers : older'[q] \/ at'[q] = "reading" => shown'[q] # <<>>
        <3>1. CASE o
            BY <2>2, <2>3, <3>1 DEF ReadersOK
        <3>2. CASE ~o
            BY <2>2, <2>3, <3>2 DEF ReadersOK
        <3> QED
            BY <3>1, <3>2
    <2> QED
        BY <2>1, <2>2, <2>3, <2>4 DEF ReadersOK
<1>7. ASSUME NEW r \in Readers, ReadFile(r) PROVE ReadersOK'
    <2>1. PICK o \in BOOLEAN : older' = [older EXCEPT ![r] = o]
        BY <1>7 DEF ReadFile, Before
    <2>2. at[r] = "reading" /\ at' = [at EXCEPT ![r] = "ready"] /\ UNCHANGED <<ring, bus, shown, next, heard, left>>
        BY <1>7 DEF ReadFile, log, file
    <2>3. \A q \in Readers : older'[q] \/ at'[q] = "reading" => shown[q] # <<>>
        BY <2>1, <2>2 DEF ReadersOK
    <2> QED
        BY <2>1, <2>2, <2>3 DEF ReadersOK
<1>8. ASSUME NEW r \in Readers, Page(r) PROVE ReadersOK'
    <2>1. shown' \in [Readers -> Seq(Msgs)]
        BY <1>8, PageGives DEF Gives
    <2> DEFINE n == Len(ById(LinesBefore(id[shown[r][1]])))
    <2>a. n \in Nat /\ HistoryCap \in Nat
        BY PageIsOfFile DEF ChatAssumption
    <2>b. older' = [older EXCEPT ![r] = n > HistoryCap]
        BY <1>8 DEF Page
    <2>2. PICK o \in BOOLEAN : older' = [older EXCEPT ![r] = o]
        <3> HIDE DEF n
        <3>1. (n > HistoryCap) \in BOOLEAN
            BY <2>a
        <3> QED
            BY <2>b, <3>1, Zenon
    <2>3. UNCHANGED <<ring, bus, at, next, heard, left>>
        BY <1>8 DEF Page, log, file
    <2>4. shown'[r] # <<>> /\ \A q \in Readers \ {r} : shown'[q] = shown[q]
        BY <1>8, PageGives DEF Gives, Page, ReadersOK
    <2> QED
        BY <2>1, <2>2, <2>3, <2>4 DEF ReadersOK
<1>9. ASSUME NEW r \in Readers, Poll(r) PROVE ReadersOK'
    <2>1. shown' \in [Readers -> Seq(Msgs)]
        BY <1>9, PollGives DEF Gives
    <2>2. UNCHANGED <<ring, bus, at, older, next, heard, left>>
        BY <1>9 DEF Poll, log, file
    <2>3. shown'[r] # <<>> /\ \A q \in Readers \ {r} : shown'[q] = shown[q]
        BY <1>9, PollGives DEF Gives, Poll
    <2> QED
        BY <2>1, <2>2, <2>3 DEF ReadersOK
<1>10. ASSUME NEW r \in Readers, Receive(r) PROVE ReadersOK'
    <2>1. /\ next[r] \in 1..(Len(bus) + 1) /\ next[r] <= Len(bus) /\ Len(bus) \in Nat
          /\ BusCap \in Nat \ {0}
          /\ UNCHANGED <<ring, bus, at, shown, older, left>>
        BY <1>10, LenProperties DEF Receive, log, file, ReadersOK, ChatAssumption
    <2>2. CASE Len(bus) - next[r] + 1 > BusCap
        <3>1. next' = [next EXCEPT ![r] = Len(bus) - BusCap + 1] /\ heard' = heard
            BY <1>10, <2>2 DEF Receive
        <3>2. Len(bus) - BusCap + 1 \in 1..(Len(bus) + 1) /\ Len(bus) - BusCap + 1 \in Nat
            BY <2>1, <2>2
        <3> QED
            BY <2>1, <3>1, <3>2 DEF ReadersOK
    <2>3. CASE ~(Len(bus) - next[r] + 1 > BusCap)
        <3>1. next' = [next EXCEPT ![r] = @ + 1] /\ heard' = [heard EXCEPT ![r] = @ \cup {bus[next[r]]}]
            BY <1>10, <2>3 DEF Receive
        <3>2. next[r] + 1 \in 1..(Len(bus) + 1) /\ next[r] + 1 \in Nat /\ next[r] \in 1..Len(bus)
            BY <2>1
        <3>3. bus[next[r]] \in Msgs
            BY <3>2, ElementOfSeq DEF ReadersOK
        <3> QED
            BY <2>1, <3>1, <3>2, <3>3 DEF ReadersOK
    <2> QED
        BY <2>2, <2>3
<1>11. CASE UNCHANGED chatVars
    BY <1>11 DEF chatVars, log, file, reader, ReadersOK
<1> QED
    BY <1>1, <1>2, <1>3, <1>4, <1>5, <1>6, <1>7, <1>8, <1>9, <1>10, <1>11 DEF ChatNext, MsgStep,
       ReaderStep

\* Whoever may miss a message has it before it, or knows.
LEMMA MissedStep ==
    ASSUME LogOK, ReadersOK, NothingMissed, ChatAssumption, [ChatNext]_chatVars
    PROVE  NothingMissed'
<1> DEFINE Sent == {m \in Msgs : place[m] = "sent"}
           Has(r) == Range(shown[r]) \cup heard[r] \cup left[r] \cup {bus[i] : i \in next[r]..Len(bus)}
<1>1. ASSUME UNCHANGED <<bus, at, shown, next, heard, lagged, left>>, Sent' \subseteq Sent
      PROVE  NothingMissed'
    BY <1>1 DEF NothingMissed
<1>2. ASSUME NEW m \in Msgs, TakeId(m) \/ Measure(m) \/ Rotate(m) \/ OpenLines(m) \/ Write(m) \/ LineFails(m) \/ LineTorn(m) \/ SenderLeaves(m) \/ Push(m)
      PROVE  NothingMissed'
    <2>1. UNCHANGED <<bus, at, shown, next, heard, lagged, left>>
        BY <1>2 DEF TakeId, Measure, Rotate, OpenLines, Write, LineFails, LineTorn,
           SenderLeaves, Push, reader
    <2>2. \A x \in Msgs : place'[x] = "sent" => place[x] = "sent"
        BY <1>2 DEF TakeId, Measure, Rotate, OpenLines, Write, LineFails, LineTorn,
           SenderLeaves, Push, Moves, LogOK
    <2> QED
        BY <1>1, <2>1, <2>2
<1>3. ASSUME NEW m \in Msgs, Send(m) PROVE NothingMissed'
    <2>1. bus' = Append(bus, m) /\ bus \in Seq(Msgs) /\ UNCHANGED <<at, shown, next, heard, lagged, left>>
        BY <1>3 DEF Send, reader, ReadersOK
    <2>2. /\ Len(bus') = Len(bus) + 1 /\ Len(bus) \in Nat /\ bus'[Len(bus) + 1] = m
          /\ \A i \in 1..Len(bus) : bus'[i] = bus[i]
        BY <2>1, AppendProperties, LenProperties
    <2>3. \A x \in Msgs : place'[x] = "sent" => place[x] = "sent" \/ x = m
        BY <1>3 DEF Send, Moves, LogOK
    <2> SUFFICES ASSUME NEW r \in Readers \ lagged, at[r] \in {"reading", "ready"},
                        NEW x \in Msgs, place'[x] = "sent"
                 PROVE  x \in Range(shown[r]) \cup heard[r] \cup left[r] \cup {bus'[i] : i \in next[r]..Len(bus')}
        BY <2>1 DEF NothingMissed
    <2>4. next[r] \in 1..(Len(bus) + 1)
        BY DEF ReadersOK
    <2>5. CASE x = m
        <3>1. Len(bus) + 1 \in next[r]..Len(bus')
            BY <2>2, <2>4
        <3> QED
            BY <2>2, <2>5, <3>1
    <2>6. CASE x # m
        <3>1. x \in Has(r)
            BY <2>3, <2>6 DEF NothingMissed
        <3>2. \A i \in next[r]..Len(bus) : i \in next[r]..Len(bus') /\ bus'[i] = bus[i]
            BY <2>2, <2>4
        <3> QED
            BY <3>1, <3>2
    <2> QED
        BY <2>5, <2>6
<1>4. ASSUME Restart PROVE NothingMissed'
    BY <1>4 DEF Restart, ReadersReset, NothingMissed
<1>5. ASSUME NEW r \in Readers, Subscribe(r) PROVE NothingMissed'
    <2>1. /\ at' = [at EXCEPT ![r] = "open"] /\ next' = [next EXCEPT ![r] = Len(bus) + 1]
          /\ UNCHANGED <<bus, place, shown, heard, lagged, left>>
        BY <1>5 DEF Subscribe, log, file
    <2>2. \A s \in Readers : s # r => at'[s] = at[s] /\ next'[s] = next[s]
        BY <2>1 DEF ReadersOK
    <2>3. at'[r] = "open"
        BY <2>1 DEF ReadersOK
    <2> QED
        BY <2>1, <2>2, <2>3 DEF NothingMissed
<1>6. ASSUME NEW r \in Readers, ReadRing(r) PROVE NothingMissed'
    <2>1. /\ shown'[r] = Newest(Matching(0), PageCap) /\ \A s \in Readers \ {r} : shown'[s] = shown[s]
        BY <1>6, ReadRingGives DEF Gives
    <2>2. left' = [left EXCEPT ![r] = {m \in Msgs : place[m] \in {"pushed", "sent"}} \ Range(shown'[r])]
        BY <1>6, <2>1 DEF ReadRing
    <2>3. UNCHANGED <<bus, place, next, heard, lagged>>
        BY <1>6 DEF ReadRing, log, file
    <2>4. \A s \in Readers \ {r} : at'[s] = at[s] /\ left'[s] = left[s]
        BY <1>6, <2>2 DEF ReadRing, ReadersOK
    <2>5. left'[r] = {m \in Msgs : place[m] \in {"pushed", "sent"}} \ Range(shown'[r])
        BY <2>2 DEF ReadersOK
    <2> SUFFICES ASSUME NEW s \in Readers \ lagged, at'[s] \in {"reading", "ready"},
                        NEW x \in Msgs, place[x] = "sent"
                 PROVE  x \in Range(shown'[s]) \cup heard[s] \cup left'[s] \cup {bus[i] : i \in next[s]..Len(bus)}
        BY <2>3 DEF NothingMissed
    <2>6. CASE s = r
        BY <2>5, <2>6
    <2>7. CASE s # r
        BY <2>1, <2>4, <2>7 DEF NothingMissed
    <2> QED
        BY <2>6, <2>7
<1>7. ASSUME NEW r \in Readers, ReadFile(r) PROVE NothingMissed'
    <2>1. at[r] = "reading" /\ at' = [at EXCEPT ![r] = "ready"] /\ UNCHANGED <<bus, place, shown, next, heard, lagged, left>>
        BY <1>7 DEF ReadFile, log, file
    <2>2. \A s \in Readers : at'[s] \in {"reading", "ready"} => at[s] \in {"reading", "ready"}
        BY <2>1 DEF ReadersOK
    <2> QED
        BY <2>1, <2>2 DEF NothingMissed
<1>8. ASSUME NEW r \in Readers, Gives(r), at[r] = "ready", UNCHANGED <<bus, place, at, next, heard, lagged, left>>
      PROVE  NothingMissed'
    <2>1. \A s \in Readers : Range(shown[s]) \subseteq Range(shown'[s])
        BY <1>8 DEF Gives
    <2> QED
        BY <1>8, <2>1 DEF NothingMissed
<1>9. ASSUME NEW r \in Readers, Page(r) \/ Poll(r) PROVE NothingMissed'
    <2>1. at[r] = "ready" /\ UNCHANGED <<bus, place, at, next, heard, lagged, left>>
        BY <1>9 DEF Page, Poll, log, file
    <2> QED
        BY <1>8, <1>9, <2>1, PageGives, PollGives
<1>10. ASSUME NEW r \in Readers, Receive(r) PROVE NothingMissed'
    <2>1. /\ next[r] \in 1..(Len(bus) + 1) /\ next[r] <= Len(bus) /\ Len(bus) \in Nat
          /\ UNCHANGED <<bus, place, at, shown, left>>
        BY <1>10, LenProperties DEF Receive, log, file, ReadersOK
    <2>2. CASE Len(bus) - next[r] + 1 > BusCap
        <3>1. next' = [next EXCEPT ![r] = Len(bus) - BusCap + 1] /\ heard' = heard /\ lagged' = lagged \cup {r}
            BY <1>10, <2>2 DEF Receive
        <3>2. \A s \in Readers \ lagged' : s \in Readers \ lagged /\ next'[s] = next[s]
            BY <3>1 DEF ReadersOK
        <3> QED
            BY <2>1, <3>1, <3>2 DEF NothingMissed
    <2>3. CASE ~(Len(bus) - next[r] + 1 > BusCap)
        <3>1. next' = [next EXCEPT ![r] = @ + 1] /\ heard' = [heard EXCEPT ![r] = @ \cup {bus[next[r]]}] /\ lagged' = lagged
            BY <1>10, <2>3 DEF Receive
        <3>2. next'[r] = next[r] + 1 /\ heard'[r] = heard[r] \cup {bus[next[r]]}
            BY <3>1 DEF ReadersOK
        <3>3. \A s \in Readers : s # r => next'[s] = next[s] /\ heard'[s] = heard[s]
            BY <3>1 DEF ReadersOK
        <3>4. \A i \in next[r]..Len(bus) : i = next[r] \/ i \in (next[r] + 1)..Len(bus)
            BY <2>1
        <3> SUFFICES ASSUME NEW s \in Readers \ lagged, at[s] \in {"reading", "ready"},
                            NEW x \in Msgs, place[x] = "sent"
                     PROVE  x \in Range(shown[s]) \cup heard'[s] \cup left[s] \cup {bus[i] : i \in next'[s]..Len(bus)}
            BY <2>1, <3>1 DEF NothingMissed
        <3>5. x \in Has(s)
            BY DEF NothingMissed
        <3>6. CASE s = r
            BY <3>2, <3>4, <3>5, <3>6
        <3>7. CASE s # r
            BY <3>3, <3>5, <3>7
        <3> QED
            BY <3>6, <3>7
    <2> QED
        BY <2>2, <2>3
<1>11. CASE UNCHANGED chatVars
    BY <1>11, <1>1 DEF chatVars, log, file, reader
<1> QED
    BY <1>2, <1>3, <1>4, <1>5, <1>6, <1>7, <1>9, <1>10, <1>11 DEF ChatNext, MsgStep, ReaderStep

LEMMA HaveIdsStep ==
    ASSUME LogOK, LinesAreWritten, ReadersOK, AllHaveIds, ChatAssumption, [ChatNext]_chatVars
    PROVE  AllHaveIds'
<1> USE DEF Appending, Finished, Holding
<1>1. /\ id \in [Msgs -> Nat] /\ seq \in Nat /\ place \in [Msgs -> Appending \cup Finished \cup {"idle", "dropped"}]
      /\ \A x \in Range(ring) : x \in Msgs
      /\ \A r \in Readers : \A x \in Range(shown[r]) : x \in Msgs
    BY RangeIs DEF LogOK, ReadersOK
\* A message that moves on, with the same ring or with itself at its end.
<1>2. ASSUME NEW m \in Msgs, place[m] # "idle", place'[m] # "idle", \A x \in Msgs \ {m} : place'[x] = place[x],
             place[m] \in {"pushed", "sent", "loaded"} => place'[m] \in {"pushed", "sent", "loaded"},
             m \in Busy' => m \in Busy, UNCHANGED <<id, seq, shown>>,
             \A x \in Range(ring') : x \in Range(ring) \/ (x = m /\ m \in Busy /\ place'[m] = "pushed")
      PROVE  AllHaveIds'
    <2>1. Busy' \subseteq Busy
        BY <1>2 DEF Busy
    <2>2. ASSUME NEW x \in Range(ring') PROVE place'[x] \in {"pushed", "sent", "loaded"} /\ id[x] < seq
        BY <1>1, <1>2, <2>2 DEF AllHaveIds
    <2>3. ASSUME NEW r \in Readers, NEW x \in Range(shown[r]) PROVE place'[x] # "idle" /\ id[x] < seq
        BY <1>1, <1>2, <2>3 DEF AllHaveIds
    <2> QED
        BY <1>2, <2>1, <2>2, <2>3 DEF AllHaveIds
<1>3. ASSUME NEW m \in Msgs, TakeId(m) PROVE AllHaveIds'
    <2>1. /\ place[m] = "idle" /\ place' = [place EXCEPT ![m] = "numbered"]
          /\ id' = [id EXCEPT ![m] = seq] /\ seq' = seq + 1 /\ UNCHANGED <<ring, shown>>
        BY <1>3 DEF TakeId, Moves, reader, file
    <2>2. \A x \in Msgs : x # m => place'[x] = place[x] /\ id'[x] = id[x]
        BY <1>1, <2>1
    <2>3. id'[m] = seq /\ place'[m] = "numbered"
        BY <1>1, <2>1
    <2>4. \A x \in Busy' : id'[x] < seq'
        BY <1>1, <2>1, <2>2, <2>3 DEF AllHaveIds, Busy
    <2>5. \A x \in Range(ring) : x # m /\ place[x] \in {"pushed", "sent", "loaded"} /\ id[x] < seq
        BY <2>1 DEF AllHaveIds
    <2>6. \A r \in Readers : \A x \in Range(shown[r]) : x # m /\ place[x] # "idle" /\ id[x] < seq
        BY <2>1 DEF AllHaveIds
    <2> QED
        BY <1>1, <2>1, <2>2, <2>4, <2>5, <2>6 DEF AllHaveIds
<1>4. ASSUME NEW m \in Msgs, Measure(m) \/ OpenLines(m) \/ Write(m) \/ LineFails(m) \/ LineTorn(m) \/ Send(m) \/ SenderLeaves(m)
      PROVE  AllHaveIds'
    <2>1. /\ place[m] \in Appending \cup {"written", "pushed"}
          /\ \A x \in Msgs \ {m} : place'[x] = place[x]
          /\ UNCHANGED <<id, seq, ring, shown>>
        BY <1>1, <1>4 DEF Measure, OpenLines, Write, LineFails, LineTorn, Send, SenderLeaves,
           Moves, reader
    <2>2. place[m] = "pushed" => place'[m] = "sent"
        BY <1>1, <1>4 DEF Measure, OpenLines, Write, LineFails, LineTorn, Send, SenderLeaves, Moves
    <2>3. place[m] # "pushed" => place'[m] \in Appending \cup {"written", "alone"}
        BY <1>1, <1>4 DEF Measure, OpenLines, Write, LineFails, LineTorn, Send, SenderLeaves, Moves
    <2>4. m \in Busy' => m \in Busy
        BY <2>1, <2>2 DEF Busy
    <2>5. place'[m] # "idle"
        BY <2>2, <2>3
    <2> QED
        BY <1>2, <2>1, <2>2, <2>4, <2>5
<1>5. ASSUME NEW m \in Msgs, Rotate(m) PROVE AllHaveIds'
    <2>1. /\ UNCHANGED <<id, seq, ring, shown>> /\ place[m] = "full"
          /\ place' = [x \in Msgs |-> IF x = m THEN "cleared"
                                     ELSE IF place[x] \in Holding THEN "stray" ELSE place[x]]
        BY <1>5 DEF Rotate, reader
    <2>2. \A x \in Msgs : place'[x] = IF x = m THEN "cleared" ELSE IF place[x] \in Holding THEN "stray" ELSE place[x]
        BY <2>1
    <2>3. Busy' = Busy
        BY <2>1, <2>2 DEF Busy
    <2>4. \A x \in Range(ring) : place'[x] = place[x]
        BY <1>1, <2>1, <2>2 DEF AllHaveIds
    <2>5. \A r \in Readers : \A x \in Range(shown[r]) : place'[x] # "idle"
        BY <1>1, <2>2 DEF AllHaveIds
    <2> QED
        BY <2>1, <2>3, <2>4, <2>5 DEF AllHaveIds
<1>6. ASSUME NEW m \in Msgs, Push(m) PROVE AllHaveIds'
    <2>1. /\ place[m] = "written" /\ place' = [place EXCEPT ![m] = "pushed"]
          /\ ring' = Append(IF Len(ring) >= RingCap THEN Tail(ring) ELSE ring, m)
          /\ UNCHANGED <<id, seq, shown>>
        BY <1>6 DEF Push, Moves, reader, file
    <2>2. ring \in Seq(Msgs) /\ RingCap \in Nat \ {0}
        BY DEF ReadersOK, ChatAssumption
    <2>3. \A x \in Range(ring') : x \in Range(ring) \/ x = m
        <3>1. Len(ring) >= RingCap => ring # <<>>
            BY <2>2, EmptySeq
        <3>2. Len(ring) >= RingCap => Tail(ring) \in Seq(Msgs) /\ \A x \in Range(Tail(ring)) : x \in Range(ring)
            BY <2>2, <3>1, TailAscends
        <3> DEFINE t == IF Len(ring) >= RingCap THEN Tail(ring) ELSE ring
        <3>3. t \in Seq(Msgs) /\ \A x \in Range(t) : x \in Range(ring)
            BY <2>2, <3>2
        <3> HIDE DEF t
        <3>4. \A x \in Range(Append(t, m)) : x \in Range(t) \/ x = m
            BY <3>3, AppendHas
        <3> QED
            BY <2>1, <3>3, <3>4 DEF t
    <2>4. m \in Busy /\ place'[m] = "pushed" /\ \A x \in Msgs \ {m} : place'[x] = place[x]
        BY <1>1, <2>1 DEF Busy
    <2>5. m \notin Busy'
        BY <2>4 DEF Busy
    <2> QED
        BY <1>2, <2>1, <2>3, <2>4, <2>5
<1>7. ASSUME Restart PROVE AllHaveIds'
    <2>1. /\ place' = Fallen /\ seq' = NextId /\ ring' = Newest(lines, RingCap) /\ UNCHANGED id
          /\ shown' = [r \in Readers |-> <<>>]
        BY <1>7 DEF Restart, ReadersReset
    <2>2. NextId \in Nat /\ \A m \in Range(lines) : id[m] < NextId
        BY NextIdIsAbove
    <2>3. Busy' = {}
        <3>1. ASSUME NEW m \in Msgs PROVE place'[m] \notin Appending \cup {"written"}
            <4>1. place'[m] = IF m \in Range(lines) THEN "loaded"
                              ELSE IF place[m] \in Appending THEN "dropped"
                              ELSE IF place[m] \in Finished THEN "gone" ELSE place[m]
                BY <2>1 DEF Fallen
            <4> QED
                BY <1>1, <4>1
        <3> QED
            BY <3>1 DEF Busy
    <2>4. \A x \in Range(ring') : x \in Range(lines)
        <3>1. RingCap \in Nat \ {0} /\ lines \in Seq(Msgs)
            BY DEF ChatAssumption, LogOK
        <3> QED
            BY <2>1, <3>1, NewestWithin
    <2>5. \A x \in Range(lines) : x \in Msgs /\ place'[x] = "loaded"
        BY <2>1, RangeIs DEF LogOK, Fallen
    <2>6. \A r \in Readers : Range(shown'[r]) = {}
        <3>1. Range(<<>>) = {}
            BY RangeOfLines DEF LogOK
        <3> QED
            BY <2>1, <3>1
    <2> QED
        BY <2>1, <2>2, <2>3, <2>4, <2>5, <2>6 DEF AllHaveIds
<1>8. ASSUME NEW r \in Readers, Gives(r), UNCHANGED <<id, seq, place, ring>> PROVE AllHaveIds'
    <2>1. Busy' = Busy
        BY <1>8 DEF Busy
    <2>2. ASSUME NEW s \in Readers, NEW x \in Range(shown'[s]) PROVE place[x] # "idle" /\ id[x] < seq
        <3>1. CASE s # r
            BY <1>8, <2>2, <3>1 DEF Gives, AllHaveIds
        <3>2. CASE s = r
            <4>1. x \in Range(shown[r]) \cup Range(ring) \cup Range(lines)
                BY <1>8, <2>2, <3>2 DEF Gives
            <4>2. CASE x \in Range(lines)
                <5>1. x \in Msgs
                    BY <4>2, RangeIs DEF LogOK
                <5> QED
                    BY <4>2, <5>1 DEF LinesAreWritten
            <4> QED
                BY <4>1, <4>2 DEF AllHaveIds
        <3> QED
            BY <3>1, <3>2
    <2> QED
        BY <1>8, <2>1, <2>2 DEF AllHaveIds
<1>9. ASSUME NEW r \in Readers, ReadRing(r) \/ Page(r) \/ Poll(r) PROVE AllHaveIds'
    <2>1. UNCHANGED <<id, seq, place, ring>>
        BY <1>9 DEF ReadRing, Page, Poll, log, file
    <2> QED
        BY <1>8, <1>9, <2>1, ReadRingGives, PageGives, PollGives
<1>10. ASSUME UNCHANGED <<id, seq, place, ring, shown>> PROVE AllHaveIds'
    BY <1>10 DEF AllHaveIds, Busy
<1>11. ASSUME NEW r \in Readers, Subscribe(r) \/ ReadFile(r) \/ Receive(r) PROVE AllHaveIds'
    BY <1>10, <1>11 DEF Subscribe, ReadFile, Receive, log, file
<1>12. CASE UNCHANGED chatVars
    BY <1>10, <1>12 DEF chatVars, log, file, reader
<1> QED
    BY <1>3, <1>4, <1>5, <1>6, <1>7, <1>9, <1>11, <1>12 DEF ChatNext, MsgStep, ReaderStep

\* A new start is a start with all lines in order.
LEMMA RestartReads ==
    ASSUME LogOK, LinesAreWritten, ChatAssumption, Restart
    PROVE  /\ Busy' = {} /\ \A r \in Readers : shown'[r] = <<>> /\ Range(shown'[r]) = {}
           /\ ring' = Newest(lines, RingCap) /\ UNCHANGED <<id, lines, serial>>
           /\ \A x \in Range(ring') : x \in Range(lines)
<1> USE DEF Appending, Finished, Holding
<1>1. /\ place' = Fallen /\ ring' = Newest(lines, RingCap) /\ UNCHANGED <<id, lines, serial>>
      /\ shown' = [r \in Readers |-> <<>>]
    BY DEF Restart, ReadersReset, file
<1>2. ASSUME NEW m \in Msgs PROVE place'[m] \notin Appending \cup {"written"}
    <2>1. place'[m] = IF m \in Range(lines) THEN "loaded"
                      ELSE IF place[m] \in Appending THEN "dropped"
                      ELSE IF place[m] \in Finished THEN "gone" ELSE place[m]
        BY <1>1 DEF Fallen
    <2> QED
        BY <2>1
<1>3. \A x \in Range(ring') : x \in Range(lines)
    <2>1. RingCap \in Nat \ {0} /\ lines \in Seq(Msgs)
        BY DEF ChatAssumption, LogOK
    <2> QED
        BY <1>1, <2>1, NewestWithin
<1>4. Range(<<>>) = {}
    BY RangeOfLines DEF LogOK
<1> QED
    BY <1>1, <1>2, <1>3, <1>4 DEF Busy

\* The ring after a push: the message at its end, and the oldest gone from a full one.
LEMMA PushIs ==
    ASSUME ReadersOK, ChatAssumption, NEW m \in Msgs, Push(m)
    PROVE  \E t \in Seq(Msgs) : /\ ring' = Append(t, m)
                                /\ t = ring \/ (ring # <<>> /\ t = Tail(ring))
                                /\ \A x \in Range(t) : x \in Range(ring)
<1>1. ring' = Append(IF Len(ring) >= RingCap THEN Tail(ring) ELSE ring, m)
    BY DEF Push
<1>2. ring \in Seq(Msgs) /\ RingCap \in Nat \ {0}
    BY DEF ReadersOK, ChatAssumption
<1>3. Len(ring) >= RingCap => ring # <<>>
    BY <1>2, EmptySeq
<1>4. Len(ring) >= RingCap => Tail(ring) \in Seq(Msgs) /\ \A x \in Range(Tail(ring)) : x \in Range(ring)
    BY <1>2, <1>3, TailAscends
<1> DEFINE t == IF Len(ring) >= RingCap THEN Tail(ring) ELSE ring
<1>5. t \in Seq(Msgs) /\ (t = ring \/ (ring # <<>> /\ t = Tail(ring))) /\ \A x \in Range(t) : x \in Range(ring)
    BY <1>2, <1>3, <1>4
<1>6. ring' = Append(t, m)
    BY <1>1
<1> HIDE DEF t
<1> QED
    BY <1>5, <1>6

\* What a message does before it is in the ring, or after: it changes its own place
\* and, while it is not in the ring, the file.
LEMMA LineIs ==
    ASSUME place \in [Msgs -> Appending \cup Finished \cup {"idle", "dropped"}],
           lines \in Seq(Msgs), NEW m \in Msgs,
           Measure(m) \/ OpenLines(m) \/ LineFails(m) \/ LineTorn(m) \/ Send(m) \/ SenderLeaves(m)
               \/ Write(m)
    PROVE  /\ UNCHANGED <<conv, id, ring, reader>>
           /\ \A x \in Msgs \ {m} : place'[x] = place[x]
           /\ place'[m] # "loaded"
           /\ place'[m] \in {"pushed", "sent", "loaded"} => place[m] = "pushed" /\ lines' = lines
           /\ \A x \in Range(lines') : x \in Range(lines) \/ x = m
<1>1. UNCHANGED <<conv, id, ring, reader>>
    BY DEF Measure, OpenLines, LineFails, LineTorn, Send, SenderLeaves, Write
<1>2. PICK p \in {"full", "ready", "opened", "reopened", "written", "sent", "alone"} :
        place' = [place EXCEPT ![m] = p] /\ (p = "sent" => place[m] = "pushed" /\ lines' = lines)
    BY DEF Measure, OpenLines, LineFails, LineTorn, Send, SenderLeaves, Write, Moves, file
<1>3. lines' = lines \/ lines' = <<>> \/ lines' = Append(lines, m)
    BY DEF Measure, OpenLines, LineFails, LineTorn, Send, SenderLeaves, Write, Lands, file
<1>4. \A x \in Range(lines') : x \in Range(lines) \/ x = m
    BY <1>3, AppendHas, RangeOfLines
<1> QED
    BY <1>1, <1>2, <1>4

\* Who is alone in log_chat stays alone, with the highest id.
LEMMA TurnStep ==
    ASSUME LogOK, LinesAreWritten, ReadersOK, AllHaveIds, OnesTurn, serial, serial', ChatAssumption,
           [ChatNext]_chatVars
    PROVE  OnesTurn'
<1> USE DEF Appending, Finished, Holding
<1>1. /\ id \in [Msgs -> Nat] /\ seq \in Nat /\ place \in [Msgs -> Appending \cup Finished \cup {"idle", "dropped"}]
      /\ \A x \in Range(ring) : x \in Msgs
      /\ \A x \in Range(lines) : x \in Msgs
      /\ \A r \in Readers : \A x \in Range(shown[r]) : x \in Msgs
      /\ ring \in Seq(Msgs) /\ lines \in Seq(Msgs)
    BY RangeIs DEF LogOK, ReadersOK
<1>2. ASSUME UNCHANGED <<id, ring, shown>>, lines' = lines \/ lines' = <<>>, Busy' \subseteq Busy
      PROVE  OnesTurn'
    <2>1. CASE lines' = lines
        BY <1>2, <2>1 DEF OnesTurn, Ascending
    <2>2. CASE lines' = <<>>
        <3>1. Range(lines') = {} /\ DOMAIN lines' = {}
            BY <1>1, <2>2, RangeOfLines
        <3> QED
            BY <1>2, <3>1 DEF OnesTurn, Ascending
    <2> QED
        BY <1>2, <2>1, <2>2
<1>3. ASSUME NEW m \in Msgs, TakeId(m) PROVE OnesTurn'
    <2>1. /\ place[m] = "idle" /\ place' = [place EXCEPT ![m] = "numbered"]
          /\ id' = [id EXCEPT ![m] = seq] /\ UNCHANGED <<lines, ring, shown>>
          /\ ~\E x \in Msgs : place[x] \in Appending \cup {"written"}
        BY <1>3 DEF TakeId, Moves, reader, file
    <2>2. \A x \in Msgs : x # m => place'[x] = place[x] /\ id'[x] = id[x]
        BY <1>1, <2>1
    <2>3. id'[m] = seq /\ place'[m] = "numbered"
        BY <1>1, <2>1
    <2>4. \A x \in Busy' : x = m
        BY <2>1, <2>2 DEF Busy
    <2>5. \A x \in Range(lines) : x # m /\ id'[x] = id[x] /\ id[x] < seq
        BY <1>1, <2>1, <2>2 DEF LinesAreWritten
    <2>6. \A x \in Range(ring) : x # m /\ id'[x] = id[x] /\ id[x] < seq
        BY <1>1, <2>1, <2>2 DEF AllHaveIds
    <2>7. \A r \in Readers : \A x \in Range(shown[r]) : x # m /\ id'[x] = id[x] /\ id[x] < seq
        BY <1>1, <2>1, <2>2 DEF AllHaveIds
    <2>8. Ascending(lines)' /\ Ascending(ring)'
        <3>1. \A i \in DOMAIN lines : lines[i] \in Range(lines)
            BY DEF Range
        <3>2. \A i \in DOMAIN ring : ring[i] \in Range(ring)
            BY DEF Range
        <3> QED
            BY <2>1, <2>5, <2>6, <3>1, <3>2 DEF OnesTurn, Ascending
    <2> QED
        BY <2>1, <2>3, <2>4, <2>5, <2>6, <2>7, <2>8 DEF OnesTurn
<1>4. ASSUME NEW m \in Msgs, Measure(m) \/ OpenLines(m) \/ LineFails(m) \/ LineTorn(m) \/ Send(m) \/ SenderLeaves(m)
      PROVE  OnesTurn'
    <2>1. UNCHANGED <<id, ring, shown>> /\ \A x \in Msgs \ {m} : place'[x] = place[x]
        BY <1>1, <1>4, LineIs DEF reader
    <2>0. lines' = lines \/ lines' = <<>>
        BY <1>4 DEF Measure, OpenLines, LineFails, LineTorn, Send, SenderLeaves, file
    <2>2. place'[m] \in Appending \cup {"written"} => place[m] \in Appending \cup {"written"}
        BY <1>1, <1>4 DEF Measure, OpenLines, LineFails, LineTorn, Send, SenderLeaves, Moves
    <2>3. Busy' \subseteq Busy
        BY <2>1, <2>2 DEF Busy
    <2> QED
        BY <1>2, <2>0, <2>1, <2>3
<1>5. ASSUME NEW m \in Msgs, Rotate(m) PROVE OnesTurn'
    <2>1. /\ UNCHANGED <<id, ring, shown>> /\ place[m] = "full" /\ lines' = <<>>
          /\ place' = [x \in Msgs |-> IF x = m THEN "cleared"
                                     ELSE IF place[x] \in Holding THEN "stray" ELSE place[x]]
        BY <1>5 DEF Rotate, reader
    <2>2. \A x \in Msgs : place'[x] = IF x = m THEN "cleared" ELSE IF place[x] \in Holding THEN "stray" ELSE place[x]
        BY <2>1
    <2>3. Busy' = Busy
        BY <2>1, <2>2 DEF Busy
    <2>4. Range(lines') = {} /\ lines' \in Seq(Msgs) /\ Len(lines') = 0
        BY <2>1, <1>1, RangeOfLines, EmptySeq
    <2>5. Ascending(lines)'
        BY <2>4, LenProperties DEF Ascending
    <2> QED
        BY <2>1, <2>3, <2>4, <2>5 DEF OnesTurn, Ascending
<1>6. ASSUME NEW m \in Msgs, Write(m) PROVE OnesTurn'
    <2>1. /\ place[m] \in Holding \cup {"stray"} /\ place' = [place EXCEPT ![m] = "written"]
          /\ lines' = IF place[m] = "stray" \/ tail # "whole" THEN lines ELSE Append(lines, m)
          /\ UNCHANGED <<id, ring, shown>>
        BY <1>6 DEF Write, Lands, Moves, reader, file
    <2>2. m \in Busy /\ Busy' = Busy
        BY <1>1, <2>1 DEF Busy
    <2>3. m \notin Range(lines)
        BY <2>1 DEF LinesAreWritten
    <2>4. \A x \in Range(lines) : id[x] < id[m]
        BY <2>2, <2>3 DEF OnesTurn
    <2>5. Ascending(Append(lines, m)) /\ \A x \in Range(Append(lines, m)) : x \in Range(lines) \/ x = m
        BY <1>1, <2>4, AppendAscends, AppendHas DEF OnesTurn
    <2>6. Ascending(lines)' /\ \A x \in Range(lines') : x \in Range(lines) \/ x = m
        BY <2>1, <2>5 DEF OnesTurn, Ascending
    <2>7. \A x \in Busy : x = m
        BY <2>2 DEF OnesTurn
    <2> QED
        BY <2>1, <2>2, <2>4, <2>6, <2>7 DEF OnesTurn, Ascending
<1>7. ASSUME NEW m \in Msgs, Push(m) PROVE OnesTurn'
    <2>1. place[m] = "written" /\ place' = [place EXCEPT ![m] = "pushed"] /\ UNCHANGED <<id, lines, shown>>
        BY <1>7 DEF Push, Moves, reader, file
    <2>2. m \in Busy
        BY <1>1, <2>1 DEF Busy
    <2>3. Busy' = {}
        BY <1>1, <2>1, <2>2 DEF OnesTurn, Busy
    <2>4. PICK t \in Seq(Msgs) : /\ ring' = Append(t, m)
                                 /\ t = ring \/ (ring # <<>> /\ t = Tail(ring))
                                 /\ \A x \in Range(t) : x \in Range(ring)
        BY <1>7, PushIs
    <2>5. Ascending(t)
        BY <1>1, <2>4, TailAscends DEF OnesTurn
    <2>6. \A x \in Range(t) : id[x] < id[m]
        BY <2>2, <2>4 DEF OnesTurn
    <2>7. Ascending(Append(t, m))
        BY <2>5, <2>6, AppendAscends
    <2>8. Ascending(ring)'
        <3> DEFINE a == Append(t, m)
        <3>1. Ascending(a)
            BY <2>7
        <3>2. ring' = a
            BY <2>4
        <3> HIDE DEF a
        <3> QED
            BY <2>1, <3>1, <3>2 DEF Ascending
    <2>9. Ascending(lines)'
        BY <2>1 DEF OnesTurn, Ascending
    <2> QED
        BY <2>3, <2>8, <2>9 DEF OnesTurn
<1>8. ASSUME Restart PROVE OnesTurn'
    <2>1. Busy' = {} /\ ring' = Newest(lines, RingCap) /\ UNCHANGED <<id, lines>>
        BY <1>8, RestartReads
    <2>2. RingCap \in Nat \ {0}
        BY DEF ChatAssumption
    <2>3. Ascending(Newest(lines, RingCap))
        BY <1>1, <2>2, NewestAscends DEF OnesTurn
    <2> QED
        BY <2>1, <2>3 DEF OnesTurn, Ascending
\* Whatever is given to a reader is of the ring, or of lines before its view.
<1>9. ASSUME NEW r \in Readers, ReadRing(r) \/ Page(r) \/ Poll(r) PROVE OnesTurn'
    <2>1. UNCHANGED <<id, lines, place, ring>>
        BY <1>9 DEF ReadRing, Page, Poll, log, file
    <2>2. Busy' = Busy
        BY <2>1 DEF Busy
    <2>3. Gives(r)
        BY <1>9, ReadRingGives, PageGives, PollGives
    <2>4. ASSUME NEW m \in Busy, NEW q \in Readers, NEW x \in Range(shown'[q]) PROVE id[x] < id[m]
        <3>1. CASE x \in Range(ring) \/ x \in Range(shown[q])
            BY <2>4, <3>1 DEF OnesTurn
        <3>2. CASE ~(x \in Range(ring) \/ x \in Range(shown[q]))
            <4>1. q = r /\ x \in Range(lines)
                BY <2>3, <2>4, <3>2 DEF Gives
            <4>2. CASE x # m
                BY <4>1, <4>2 DEF OnesTurn
            <4>3. CASE x = m
                <5>2. shown[r] # <<>> /\ id[x] < id[shown[r][1]] /\ shown[r][1] \in Range(shown[r])
                    <6>1. shown[r] # <<>> /\ id[x] < id[shown[r][1]]
                        BY <2>3, <2>4, <3>2, <4>1 DEF Gives
                    <6>2. shown[r] \in Seq(Msgs)
                        BY DEF ReadersOK
                    <6> QED
                        BY <6>1, <6>2, RangeIs
                <5>3. id[shown[r][1]] < id[m]
                    BY <5>2 DEF OnesTurn
                <5>4. m \in Msgs /\ shown[r][1] \in Msgs
                    BY <1>1, <5>2 DEF Busy
                <5> QED
                    BY <1>1, <4>3, <5>2, <5>3, <5>4
            <4> QED
                BY <4>2, <4>3
        <3> QED
            BY <3>1, <3>2
    <2> QED
        BY <2>1, <2>2, <2>4 DEF OnesTurn, Ascending
<1>10. ASSUME NEW r \in Readers, Subscribe(r) \/ ReadFile(r) \/ Receive(r) PROVE OnesTurn'
    BY <1>2, <1>10 DEF Subscribe, ReadFile, Receive, log, file, Busy
<1>11. CASE UNCHANGED chatVars
    BY <1>2, <1>11 DEF chatVars, log, file, reader, Busy
<1> QED
    BY <1>3, <1>4, <1>5, <1>6, <1>7, <1>8, <1>9, <1>10, <1>11 DEF ChatNext, MsgStep, ReaderStep

\* The steps that bring no message to those that are known, and leave the file its
\* lines: the ring keeps to the file.
LEMMA BackStep ==
    ASSUME LogOK, LinesAreWritten, ReadersOK, AllHaveIds, OnesTurn, RingReachesBack, serial, serial', ChatAssumption,
           [ChatNext]_chatVars
    PROVE  RingReachesBack'
<1> USE DEF Appending, Finished, Holding
<1>1. /\ id \in [Msgs -> Nat] /\ place \in [Msgs -> Appending \cup Finished \cup {"idle", "dropped"}]
      /\ \A x \in Range(ring) : x \in Msgs
      /\ \A x \in Range(lines) : x \in Msgs
      /\ ring \in Seq(Msgs) /\ lines \in Seq(Msgs)
      /\ ring # <<>> => ring[1] \in Range(ring)
    BY RangeIs DEF LogOK, ReadersOK
<1>2. ASSUME UNCHANGED <<id, ring>>, Known' \subseteq Known PROVE RingReachesBack'
    BY <1>2 DEF RingReachesBack
<1>3. ASSUME NEW m \in Msgs, TakeId(m) PROVE RingReachesBack'
    <2>1. /\ place[m] = "idle" /\ place' = [place EXCEPT ![m] = "numbered"]
          /\ id' = [id EXCEPT ![m] = seq] /\ UNCHANGED <<lines, ring>>
        BY <1>3 DEF TakeId, Moves, file
    <2>2. \A x \in Msgs : x # m => place'[x] = place[x] /\ id'[x] = id[x]
        BY <1>1, <2>1
    <2>3. place'[m] = "numbered"
        BY <1>1, <2>1
    <2>4. \A x \in Known' : x \in Known /\ id'[x] = id[x]
        BY <1>1, <2>1, <2>2, <2>3 DEF Known
    <2>5. \A x \in Range(ring) : id'[x] = id[x]
        BY <1>1, <2>1, <2>2 DEF AllHaveIds
    <2> QED
        BY <1>1, <2>1, <2>4, <2>5 DEF RingReachesBack
<1>4. ASSUME NEW m \in Msgs, Measure(m) \/ OpenLines(m) \/ LineFails(m) \/ LineTorn(m) \/ Send(m) \/ SenderLeaves(m) \/ Write(m)
      PROVE  RingReachesBack'
    <2>1. UNCHANGED <<id, ring>> /\ \A x \in Msgs \ {m} : place'[x] = place[x]
        BY <1>1, <1>4, LineIs
    <2>2. place'[m] \in {"pushed", "sent", "loaded"} => place[m] = "pushed" /\ lines' = lines
        BY <1>1, <1>4, LineIs
    <2>3. \A x \in Range(lines') : x \in Range(lines) \/ x = m
        BY <1>1, <1>4, LineIs
    <2>4. Known' \subseteq Known
        <3> SUFFICES ASSUME NEW x \in Known' PROVE x \in Known
            OBVIOUS
        <3>1. x \in Range(lines') /\ place'[x] \in {"pushed", "sent", "loaded"}
            BY DEF Known
        <3>2. CASE x = m
            BY <2>2, <3>1, <3>2 DEF Known
        <3>3. CASE x # m
            <4>1. x \in Range(lines) /\ x \in Msgs
                BY <1>1, <2>3, <3>1, <3>3
            <4> QED
                BY <2>1, <3>1, <3>3, <4>1 DEF Known
        <3> QED
            BY <3>2, <3>3
    <2> QED
        BY <1>2, <2>1, <2>4
<1>5. ASSUME NEW m \in Msgs, Rotate(m) PROVE RingReachesBack'
    <2>1. UNCHANGED <<id, ring>> /\ lines' = <<>>
        BY <1>5 DEF Rotate
    <2>2. Range(lines') = {}
        BY <2>1, RangeOfLines, <1>1
    <2> QED
        BY <1>2, <2>1, <2>2 DEF Known
<1>6. ASSUME NEW m \in Msgs, Push(m) PROVE RingReachesBack'
    <2>1. place[m] = "written" /\ place' = [place EXCEPT ![m] = "pushed"] /\ UNCHANGED <<id, lines>>
        BY <1>6 DEF Push, Moves, file
    <2>2. m \in Busy /\ \A x \in Msgs \ {m} : place'[x] = place[x]
        BY <1>1, <2>1 DEF Busy
    <2>3. PICK t \in Seq(Msgs) : /\ ring' = Append(t, m)
                                 /\ t = ring \/ (ring # <<>> /\ t = Tail(ring))
                                 /\ \A x \in Range(t) : x \in Range(ring)
        BY <1>6, PushIs
    <2> DEFINE a == Append(t, m)
    <2>a. \A x : x \in Range(a) <=> x \in Range(t) \/ x = m
        BY AppendHas
    <2>d. ring' = a
        BY <2>3
    <2>b. Len(t) \in Nat /\ (t # <<>> <=> Len(t) > 0)
        BY RangeIs
    <2>c. a[Len(t) + 1] = m /\ \A i \in 1..Len(t) : a[i] = t[i]
        BY AppendProperties
    <2> HIDE DEF a
    <2>4. \A x : x \in Range(ring') <=> x \in Range(t) \/ x = m
        BY <2>a, <2>d
    <2>5. (t = <<>> => ring'[1] = m) /\ (t # <<>> => ring'[1] = t[1])
        <3>1. t = <<>> => Len(t) + 1 = 1
            BY <2>b
        <3>2. t # <<>> => 1 \in 1..Len(t)
            BY <2>b
        <3> QED
            BY <2>d, <2>c, <3>1, <3>2
    <2> SUFFICES ASSUME NEW x \in Known', id[x] >= id[ring'[1]], x # m PROVE x \in Range(t)
        BY <2>1, <2>4 DEF RingReachesBack
    <2>6. x \in Range(lines) /\ x \in Msgs /\ x \in Known
        BY <1>1, <2>1, <2>2 DEF Known
    <2>7. id[x] < id[m] /\ id[x] \in Nat /\ id[m] \in Nat
        BY <1>1, <2>2, <2>6 DEF OnesTurn
    <2>8. t # <<>>
        BY <2>5, <2>7
    <2>9. CASE t = ring
        BY <2>5, <2>6, <2>8, <2>9 DEF RingReachesBack
    <2>10. CASE ring # <<>> /\ t = Tail(ring)
        <3>1. Len(ring) > 1 /\ t[1] = ring[2] /\ (\A y \in Range(ring) : y \in Range(t) \/ y = ring[1])
              /\ DOMAIN ring = 1..Len(ring) /\ Len(ring) \in Nat
            BY <1>1, <2>8, <2>10, TailAscends, RangeIs
        <3>2. id[ring[1]] < id[ring[2]] /\ ring[1] \in Msgs /\ ring[2] \in Msgs
            <4>1. 1 \in DOMAIN ring /\ 2 \in DOMAIN ring
                BY <3>1
            <4>2. \A i \in DOMAIN ring : ring[i] \in Msgs
                BY <1>1, <3>1, ElementOfSeq
            <4> QED
                BY <4>1, <4>2 DEF OnesTurn, Ascending
        <3>3. id[x] >= id[ring[2]] /\ id[ring[1]] \in Nat /\ id[ring[2]] \in Nat
            BY <1>1, <2>5, <2>8, <3>1, <3>2
        <3>4. id[x] >= id[ring[1]] /\ x # ring[1]
            BY <2>7, <3>2, <3>3, SMTT(30)
        <3>5. x \in Range(ring)
            BY <2>6, <2>10, <3>4 DEF RingReachesBack
        <3> QED
            BY <3>1, <3>4, <3>5
    <2> QED
        BY <2>3, <2>9, <2>10
<1>7. ASSUME Restart PROVE RingReachesBack'
    <2>1. ring' = Newest(lines, RingCap) /\ UNCHANGED <<id, lines>>
        BY <1>7, RestartReads
    <2>2. RingCap \in Nat \ {0} /\ Ascending(lines)
        BY DEF ChatAssumption, OnesTurn
    <2>3. \A x \in Range(lines) : ring' # <<>> /\ id[x] >= id[ring'[1]] => x \in Range(ring')
        BY <1>1, <2>1, <2>2, NewestAscends
    <2> QED
        BY <2>1, <2>3 DEF RingReachesBack, Known
<1>8. ASSUME UNCHANGED <<id, lines, place, ring>> PROVE RingReachesBack'
    BY <1>2, <1>8 DEF Known
<1>9. ASSUME NEW r \in Readers, ReaderStep(r) PROVE RingReachesBack'
    BY <1>8, <1>9 DEF ReaderStep, Subscribe, ReadRing, ReadFile, Page, Poll, Receive, log, file
<1>10. CASE UNCHANGED chatVars
    BY <1>8, <1>10 DEF chatVars, log, file
<1> QED
    BY <1>3, <1>4, <1>5, <1>6, <1>7, <1>9, <1>10 DEF ChatNext, MsgStep

\* What api_messages finds in a ring that ascends, and the part it returns.
LEMMA AnswerAscends ==
    ASSUME LogOK, ReadersOK, ChatAssumption, Ascending(ring), NEW since
    PROVE  LET all == Matching(since)
               new == Newest(all, PageCap)
           IN  /\ all \in Seq(Msgs) /\ new \in Seq(Msgs) /\ Ascending(all) /\ Ascending(new)
               /\ \A x : x \in Range(all) <=> x \in Range(ring) /\ InThread(x) /\ id[x] > since
               /\ \A x \in Range(new) : x \in Range(all)
               /\ all # <<>> => new # <<>> /\ Last(new) = Last(all)
               /\ \A x \in Range(all) : new # <<>> /\ id[x] >= id[new[1]] => x \in Range(new)
               /\ Len(all) <= PageCap => new = all
<1> DEFINE S   == {m \in Msgs : InThread(m) /\ id[m] > since}
           all == Matching(since)
           new == Newest(all, PageCap)
<1>1. ring \in Seq(Msgs) /\ id \in [Msgs -> Nat] /\ PageCap \in Nat \ {0}
    BY DEF ReadersOK, LogOK, ChatAssumption
<1>2. \A x \in Range(ring) : x \in Msgs
    BY <1>1, RangeIs
<1>3. all = Filter(ring, S)
    BY DEF Matching
<1>4. \A x \in Msgs : x \in S <=> InThread(x) /\ id[x] > since
    OBVIOUS
<1> HIDE DEF S, all
<1>5. /\ Ascending(all) /\ all \in Seq(Msgs)
      /\ \A x : x \in Range(all) <=> x \in Range(ring) /\ x \in S
    BY <1>1, <1>3, FilterAscends
<1>6. \A x : x \in Range(all) <=> x \in Range(ring) /\ InThread(x) /\ id[x] > since
    BY <1>2, <1>4, <1>5
<1>7. /\ Ascending(new) /\ new \in Seq(Msgs)
      /\ \A x \in Range(new) : x \in Range(all)
      /\ all # <<>> => new # <<>> /\ Last(new) = Last(all)
      /\ \A x \in Range(all) : new # <<>> /\ id[x] >= id[new[1]] => x \in Range(new)
    BY <1>1, <1>5, NewestAscends
<1>8. Len(all) <= PageCap => new = all
    BY <1>1, <1>5, NewestIs
<1> QED
    BY <1>5, <1>6, <1>7, <1>8 DEF all

\* What api_history finds in a file that ascends, and the part it returns.
LEMMA PageAscends ==
    ASSUME LogOK, ChatAssumption, Ascending(lines), NEW first
    PROVE  LET all == ById(LinesBefore(first))
               new == Newest(all, HistoryCap)
           IN  /\ all \in Seq(Msgs) /\ new \in Seq(Msgs) /\ Ascending(all) /\ Ascending(new)
               /\ \A x : x \in Range(all) <=> x \in Range(lines) /\ InThread(x) /\ id[x] < first
               /\ \A x \in Range(new) : x \in Range(all)
               /\ all # <<>> => new # <<>>
               /\ \A x \in Range(all) : new # <<>> /\ id[x] >= id[new[1]] => x \in Range(new)
               /\ ~(Len(all) > HistoryCap) => new = all
<1> DEFINE S   == {m \in Msgs : InThread(m) /\ id[m] < first}
           bef == LinesBefore(first)
           all == ById(bef)
           new == Newest(all, HistoryCap)
<1>1. lines \in Seq(Msgs) /\ id \in [Msgs -> Nat] /\ HistoryCap \in Nat \ {0}
    BY DEF LogOK, ChatAssumption
<1>2. \A x \in Range(lines) : x \in Msgs
    BY <1>1, RangeIs
<1>3. bef = Filter(lines, S)
    BY DEF LinesBefore
<1>4. \A x \in Msgs : x \in S <=> InThread(x) /\ id[x] < first
    OBVIOUS
<1> HIDE DEF S, bef
<1>5. /\ Ascending(bef) /\ bef \in Seq(Msgs)
      /\ \A x : x \in Range(bef) <=> x \in Range(lines) /\ x \in S
    BY <1>1, <1>3, FilterAscends
<1>6. all = bef
    BY <1>1, <1>5, SortedAlready
<1> HIDE DEF all
<1>7. \A x : x \in Range(all) <=> x \in Range(lines) /\ InThread(x) /\ id[x] < first
    BY <1>2, <1>4, <1>5, <1>6
<1>8. Ascending(all) /\ all \in Seq(Msgs)
    BY <1>5, <1>6
<1>9. /\ Ascending(new) /\ new \in Seq(Msgs)
      /\ \A x \in Range(new) : x \in Range(all)
      /\ all # <<>> => new # <<>>
      /\ \A x \in Range(all) : new # <<>> /\ id[x] >= id[new[1]] => x \in Range(new)
    BY <1>1, <1>8, NewestAscends
<1>10. ~(Len(all) > HistoryCap) => new = all
    <2>1. Len(all) \in Nat
        BY <1>8, RangeIs
    <2>2. ~(Len(all) > HistoryCap) => Len(all) <= HistoryCap
        BY <1>1, <2>1
    <2> QED
        BY <1>1, <1>8, <2>2, NewestIs
<1> QED
    BY <1>7, <1>8, <1>9, <1>10 DEF all, bef

\* A view only grows at its ends, and what the ring was seeded with is behind its last.
LEMMA SeedStep ==
    ASSUME LogOK, LinesAreWritten, ReadersOK, AllHaveIds, OnesTurn, RingReachesBack, SeedIsShown,
           ChatAssumption, [ChatNext]_chatVars
    PROVE  SeedIsShown'
<1> USE DEF Appending, Finished, Holding
<1>1. /\ id \in [Msgs -> Nat] /\ place \in [Msgs -> Appending \cup Finished \cup {"idle", "dropped"}]
      /\ \A x \in Range(ring) : x \in Msgs
      /\ \A x \in Range(lines) : x \in Msgs
      /\ shown \in [Readers -> Seq(Msgs)]
      /\ ring \in Seq(Msgs) /\ lines \in Seq(Msgs)
    BY RangeIs DEF LogOK, ReadersOK
<1>2. \A r \in Readers : shown[r] # <<>> => Last(shown[r]) \in Range(shown[r]) /\ Last(shown[r]) \in Msgs
    BY <1>1, RangeIs
<1>3. ASSUME UNCHANGED <<conv, shown>>,
             \A x \in Range(lines') : place'[x] = "loaded" =>
                x \in Range(lines) /\ place[x] = "loaded" /\ id'[x] = id[x],
             \A r \in Readers : shown[r] # <<>> => id'[Last(shown[r])] = id[Last(shown[r])]
      PROVE  SeedIsShown'
    BY <1>3 DEF SeedIsShown, InThread
<1>4. ASSUME NEW m \in Msgs, TakeId(m) PROVE SeedIsShown'
    <2>1. /\ place[m] = "idle" /\ place' = [place EXCEPT ![m] = "numbered"]
          /\ id' = [id EXCEPT ![m] = seq] /\ UNCHANGED <<lines, shown, conv>>
        BY <1>4 DEF TakeId, Moves, reader, file
    <2>2. (\A x \in Msgs : x # m => place'[x] = place[x] /\ id'[x] = id[x]) /\ place'[m] = "numbered"
        BY <1>1, <2>1
    <2>3. \A r \in Readers : shown[r] # <<>> => Last(shown[r]) # m
        BY <1>2, <2>1 DEF AllHaveIds
    <2>4. \A r \in Readers : shown[r] # <<>> => id'[Last(shown[r])] = id[Last(shown[r])]
        BY <1>2, <2>2, <2>3
    <2>5. \A x \in Range(lines') : place'[x] = "loaded" =>
            x \in Range(lines) /\ place[x] = "loaded" /\ id'[x] = id[x]
        BY <1>1, <2>1, <2>2
    <2> QED
        BY <1>3, <2>1, <2>4, <2>5
<1>5. ASSUME NEW m \in Msgs,
             Measure(m) \/ OpenLines(m) \/ LineFails(m) \/ LineTorn(m) \/ Send(m) \/ SenderLeaves(m)
                 \/ Write(m) \/ Push(m)
      PROVE  SeedIsShown'
    <2> DEFINE Goal == /\ UNCHANGED <<id, conv, shown>> /\ \A x \in Msgs \ {m} : place'[x] = place[x]
                       /\ place'[m] # "loaded"
                       /\ \A x \in Range(lines') : x \in Range(lines) \/ x = m
    <2>a. ASSUME Push(m) PROVE Goal
        BY <1>1, <2>a DEF Push, Moves, reader, file
    <2>b. ASSUME ~Push(m) PROVE Goal
        BY <1>1, <1>5, <2>b, LineIs DEF reader
    <2>1. Goal
        BY <2>a, <2>b
    <2>2. \A x \in Range(lines') : x \in Range(lines) \/ x = m
        BY <2>1
    <2>3. \A x \in Range(lines') : place'[x] = "loaded" =>
            x \in Range(lines) /\ place[x] = "loaded" /\ id'[x] = id[x]
        BY <1>1, <2>1, <2>2
    <2> QED
        BY <1>3, <2>1, <2>3
<1>6. ASSUME NEW m \in Msgs, Rotate(m) PROVE SeedIsShown'
    <2>1. UNCHANGED <<id, conv, shown>> /\ lines' = <<>>
        BY <1>6 DEF Rotate, reader
    <2>2. Range(lines') = {}
        BY <2>1, <1>1, RangeOfLines
    <2> QED
        BY <1>3, <2>1, <2>2
<1>7. ASSUME Restart PROVE SeedIsShown'
    BY <1>7, RestartReads DEF SeedIsShown
<1>8. ASSUME NEW r \in Readers, UNCHANGED <<id, conv, lines, place>>,
             \A q \in Readers \ {r} : shown'[q] = shown[q],
             ASSUME shown'[r] # <<>>, NEW x \in Range(lines), InThread(x), place[x] = "loaded"
             PROVE  id[x] <= id[Last(shown'[r])]
      PROVE  SeedIsShown'
    <2> SUFFICES ASSUME NEW q \in Readers, shown'[q] # <<>>, NEW x \in Range(lines),
                        InThread(x), place[x] = "loaded"
                 PROVE  id[x] <= id[Last(shown'[q])]
        BY <1>8 DEF SeedIsShown, InThread
    <2>1. CASE q = r
        BY <1>8, <2>1
    <2>2. CASE q # r
        BY <1>8, <2>2 DEF SeedIsShown
    <2> QED
        BY <2>1, <2>2
<1>9. ASSUME NEW r \in Readers, ReadRing(r) PROVE SeedIsShown'
    <2> DEFINE all == Matching(0)
               new == Newest(all, PageCap)
    <2>1. /\ UNCHANGED <<id, conv, lines, place>> /\ shown'[r] = new
          /\ \A q \in Readers \ {r} : shown'[q] = shown[q]
        BY <1>9, ReadRingGives DEF ReadRing, log, file, Gives
    <2>2. /\ all \in Seq(Msgs) /\ new \in Seq(Msgs) /\ Ascending(all)
          /\ \A x : x \in Range(all) <=> x \in Range(ring) /\ InThread(x) /\ id[x] > 0
          /\ \A x \in Range(new) : x \in Range(all)
          /\ all # <<>> => new # <<>> /\ Last(new) = Last(all)
        BY AnswerAscends DEF OnesTurn
    <2> HIDE DEF all, new
    <2> SUFFICES ASSUME new # <<>>, NEW x \in Range(lines), InThread(x), place[x] = "loaded"
                 PROVE  id[x] <= id[Last(new)]
        BY <1>8, <2>1
    <2>3. Last(new) \in Range(all) /\ Last(new) \in Range(ring) /\ Last(new) \in Msgs
        BY <1>1, <2>2, RangeIs
    <2>4. all # <<>> /\ Last(new) = Last(all)
        <3>1. \A y : y \notin Range(<<>>)
            BY DEF Range
        <3> QED
            BY <2>2, <2>3, <3>1
    <2>5. x \in Msgs /\ x \in Known /\ id[x] \in Nat /\ id[Last(new)] \in Nat
        BY <1>1, <2>3 DEF Known
    <2>6. ring # <<>> /\ ring[1] \in Msgs /\ id[ring[1]] <= id[Last(new)] /\ id[ring[1]] \in Nat
        <3>1. ring # <<>>
            <4>1. \A y : y \notin Range(<<>>)
                BY DEF Range
            <4> QED
                BY <2>3, <4>1
        <3>2. ring[1] \in Msgs
            BY <1>1, <3>1, RangeIs
        <3> QED
            BY <1>1, <2>3, <3>1, <3>2, AscendingEnds DEF OnesTurn
    <2>7. CASE id[x] >= id[ring[1]] /\ id[x] > 0
        <3>1. x \in Range(all)
            BY <2>2, <2>5, <2>6, <2>7 DEF RingReachesBack
        <3> QED
            BY <1>1, <2>2, <2>4, <3>1, AscendingEnds
    <2>8. CASE id[x] < id[ring[1]] \/ id[x] = 0
        BY <2>5, <2>6, <2>8
    <2> QED
        BY <2>5, <2>6, <2>7, <2>8
<1>10. ASSUME NEW r \in Readers, Page(r) PROVE SeedIsShown'
    <2> DEFINE new == Newest(ById(LinesBefore(id[shown[r][1]])), HistoryCap)
    <2>1. shown' = [shown EXCEPT ![r] = new \o @] /\ UNCHANGED <<id, conv, lines, place>> /\ older[r]
        BY <1>10 DEF Page, log, file
    <2>2. new \in Seq(Msgs)
        BY PageIsOfFile
    <2> HIDE DEF new
    <2>3. shown'[r] = new \o shown[r] /\ (\A q \in Readers \ {r} : shown'[q] = shown[q]) /\ shown[r] \in Seq(Msgs)
        BY <1>1, <2>1
    <2>4. shown[r] # <<>>
        BY <2>1 DEF ReadersOK
    <2>5. Last(shown'[r]) = Last(shown[r])
        BY <2>2, <2>3, <2>4, JoinedIs
    <2> QED
        BY <1>8, <2>1, <2>3, <2>4, <2>5 DEF SeedIsShown
<1>11. ASSUME NEW r \in Readers, Poll(r) PROVE SeedIsShown'
    <2> DEFINE since == id[Last(shown[r])]
               all   == Matching(since)
               new   == Newest(all, PageCap)
    <2>1. /\ shown' = [shown EXCEPT ![r] = @ \o new] /\ UNCHANGED <<id, conv, lines, place>>
          /\ all # <<>> /\ shown[r] # <<>>
        BY <1>11 DEF Poll, log, file
    <2>2. /\ new \in Seq(Msgs) /\ new # <<>> /\ all \in Seq(Msgs)
          /\ \A x : x \in Range(all) => x \in Range(ring) /\ id[x] > since
          /\ \A x \in Range(new) : x \in Range(all)
        BY <2>1, AnswerAscends DEF OnesTurn
    <2> HIDE DEF new, all
    <2>3. shown'[r] = shown[r] \o new /\ (\A q \in Readers \ {r} : shown'[q] = shown[q]) /\ shown[r] \in Seq(Msgs)
        BY <1>1, <2>1
    <2>4. Last(shown'[r]) = Last(new) /\ Last(new) \in Range(new)
        BY <2>2, <2>3, JoinedIs, RangeIs
    <2>5. id[Last(new)] > id[Last(shown[r])] /\ Last(new) \in Msgs /\ Last(shown[r]) \in Msgs
        BY <1>1, <1>2, <2>1, <2>2, <2>4
    <2>6. ASSUME NEW x \in Range(lines), InThread(x), place[x] = "loaded" PROVE id[x] <= id[Last(new)]
        <3>1. id[x] <= id[Last(shown[r])]
            BY <2>1, <2>6 DEF SeedIsShown
        <3>2. id[x] \in Nat /\ id[Last(new)] \in Nat /\ id[Last(shown[r])] \in Nat
            BY <1>1, <2>5
        <3> QED
            BY <2>5, <3>1, <3>2
    <2> QED
        BY <1>8, <2>1, <2>3, <2>4, <2>6
<1>12. ASSUME NEW r \in Readers, Subscribe(r) \/ ReadFile(r) \/ Receive(r) PROVE SeedIsShown'
    BY <1>3, <1>12 DEF Subscribe, ReadFile, Receive, log, file
<1>13. CASE UNCHANGED chatVars
    BY <1>3, <1>13 DEF chatVars, log, file, reader
<1> QED
    BY <1>4, <1>5, <1>6, <1>7, <1>9, <1>10, <1>11, <1>12, <1>13 DEF ChatNext, MsgStep, ReaderStep

\* One reader's view changes: the others' stay whole.
LEMMA OneView ==
    ASSUME ReaderIsWhole, serial, NEW r \in Readers, UNCHANGED <<id, conv, lines, place>>, gap \subseteq gap',
           \A q \in Readers \ {r} : shown'[q] = shown[q] /\ older'[q] = older[q] /\ at'[q] = at[q],
           r \notin gap' /\ shown'[r] # <<>> => ViewIsWhole(r)'
    PROVE  ReaderIsWhole'
<1> SUFFICES ASSUME NEW q \in Readers, q \notin gap', shown'[q] # <<>>
             PROVE  ViewIsWhole(q)'
    BY DEF ReaderIsWhole
<1>1. CASE q = r
    BY <1>1
<1>2. CASE q # r
    <2>1. shown'[q] = shown[q] /\ older'[q] = older[q] /\ at'[q] = at[q] /\ ViewIsWhole(q)
        BY <1>2 DEF ReaderIsWhole
    <2> QED
        BY <2>1 DEF ViewIsWhole, Ascending, Known, InThread
<1> QED
    BY <1>1, <1>2

\* A view stays whole while what comes to be known is newer.
LEMMA ViewsStay ==
    ASSUME LogOK, LogOK', ReadersOK, ReaderIsWhole, serial, UNCHANGED <<conv, shown, older>>, gap \subseteq gap',
           \A r \in Readers : at'[r] = "ready" => at[r] = "ready",
           \A r \in Readers : \A x \in Range(shown[r]) : id'[x] = id[x],
           \A x \in Known' : x \in Msgs /\ ( \/ x \in Known /\ id'[x] = id[x]
                                             \/ \A r \in Readers : \A y \in Range(shown[r]) : id'[y] < id'[x] )
    PROVE  ReaderIsWhole'
<1> SUFFICES ASSUME NEW r \in Readers, r \notin gap, shown[r] # <<>>
             PROVE  ViewIsWhole(r)'
    BY DEF ReaderIsWhole
<1> DEFINE s == shown[r]
<1>1. /\ s \in Seq(Msgs) /\ shown'[r] = s /\ DOMAIN s = 1..Len(s)
      /\ s[1] \in Range(s) /\ Last(s) \in Range(s) /\ s[1] \in Msgs /\ Last(s) \in Msgs
      /\ \A i \in DOMAIN s : s[i] \in Range(s)
    BY RangeIs DEF ReadersOK
<1>2. ViewIsWhole(r)
    BY DEF ReaderIsWhole
<1> HIDE DEF s
<1>3. \A y \in Range(s) : id'[y] = id[y]
    BY DEF s
<1>4. id \in [Msgs -> Nat] /\ id' \in [Msgs -> Nat]
    BY DEF LogOK
<1>5. \A i, j \in DOMAIN s : i < j => id'[s[i]] < id'[s[j]]
    BY <1>1, <1>2, <1>3 DEF ViewIsWhole, Ascending, s
<1>6. ASSUME NEW m \in Known', InThread(m)', id'[m] \in id'[s[1]]..id'[Last(s)] PROVE m \in Range(s)
    <2>1. CASE m \in Known /\ id'[m] = id[m]
        BY <1>1, <1>2, <1>3, <1>6, <2>1 DEF ViewIsWhole, InThread, s
    <2>2. CASE \A y \in Range(s) : id'[y] < id'[m]
        <3>1. id'[Last(s)] < id'[m] /\ id'[m] <= id'[Last(s)]
            BY <1>1, <1>6, <2>2
        <3>2. id'[Last(s)] \in Nat /\ id'[m] \in Nat
            BY <1>1, <1>4, <1>6
        <3> QED
            BY <3>1, <3>2
    <2> QED
        BY <1>6, <2>1, <2>2 DEF s
<1>7. ASSUME at'[r] = "ready" /\ ~older'[r], NEW m \in Known', InThread(m)', id'[m] < id'[s[1]] PROVE FALSE
    <2>1. CASE m \in Known /\ id'[m] = id[m]
        BY <1>1, <1>2, <1>3, <1>7, <2>1 DEF ViewIsWhole, InThread, s
    <2>2. CASE \A y \in Range(s) : id'[y] < id'[m]
        <3>1. id'[s[1]] < id'[m] /\ id'[m] < id'[s[1]]
            BY <1>1, <1>7, <2>2
        <3>2. id'[s[1]] \in Nat /\ id'[m] \in Nat
            BY <1>1, <1>4, <1>7
        <3> QED
            BY <3>1, <3>2
    <2> QED
        BY <1>7, <2>1, <2>2 DEF s
<1> QED
    BY <1>1, <1>5, <1>6, <1>7 DEF ViewIsWhole, Ascending

\* The steps of log_chat and of a start leave every view whole.
LEMMA WholeLogStep ==
    ASSUME LogOK, LogOK', LinesAreWritten, ReadersOK, AllHaveIds, OnesTurn, ReaderIsWhole, serial, ChatAssumption,
           Restart \/ \E m \in Msgs : MsgStep(m)
    PROVE  ReaderIsWhole'
<1> USE DEF Appending, Finished, Holding
<1>1. /\ id \in [Msgs -> Nat] /\ place \in [Msgs -> Appending \cup Finished \cup {"idle", "dropped"}]
      /\ \A x \in Range(lines) : x \in Msgs
      /\ \A r \in Readers : \A x \in Range(shown[r]) : x \in Msgs
      /\ lines \in Seq(Msgs)
    BY RangeIs DEF LogOK, ReadersOK
<1>2. ASSUME UNCHANGED <<id, reader, conv>>, Known' \subseteq Known PROVE ReaderIsWhole'
    <2>1. \A x \in Known' : x \in Msgs /\ x \in Known /\ id'[x] = id[x]
        BY <1>1, <1>2 DEF Known
    <2> QED
        BY <1>2, <2>1, ViewsStay DEF reader
<1>3. ASSUME NEW m \in Msgs, TakeId(m) PROVE ReaderIsWhole'
    <2>1. /\ place[m] = "idle" /\ place' = [place EXCEPT ![m] = "numbered"]
          /\ id' = [id EXCEPT ![m] = seq] /\ UNCHANGED <<lines, conv, shown, older, gap, at>>
        BY <1>3 DEF TakeId, Moves, reader, file
    <2>2. (\A x \in Msgs : x # m => place'[x] = place[x] /\ id'[x] = id[x]) /\ place'[m] = "numbered"
        BY <1>1, <2>1
    <2>3. \A r \in Readers : \A x \in Range(shown[r]) : id'[x] = id[x]
        BY <1>1, <2>1, <2>2 DEF AllHaveIds
    <2>4. \A x \in Known' : x \in Msgs /\ x \in Known /\ id'[x] = id[x]
        BY <1>1, <2>1, <2>2 DEF Known
    <2> QED
        BY <2>1, <2>3, <2>4, ViewsStay
<1>4. ASSUME NEW m \in Msgs,
             Measure(m) \/ OpenLines(m) \/ LineFails(m) \/ LineTorn(m) \/ Send(m) \/ SenderLeaves(m) \/ Write(m)
      PROVE  ReaderIsWhole'
    <2>1. UNCHANGED <<id, reader, conv>> /\ \A x \in Msgs \ {m} : place'[x] = place[x]
        BY <1>1, <1>4, LineIs
    <2>2. place'[m] \in {"pushed", "sent", "loaded"} => place[m] = "pushed" /\ lines' = lines
        BY <1>1, <1>4, LineIs
    <2>3. \A x \in Range(lines') : x \in Range(lines) \/ x = m
        BY <1>1, <1>4, LineIs
    <2>4. ASSUME NEW x \in Known' PROVE x \in Known
        <3>1. x \in Range(lines') /\ place'[x] \in {"pushed", "sent", "loaded"}
            BY <2>4 DEF Known
        <3>2. CASE x = m
            BY <2>2, <3>1, <3>2 DEF Known
        <3>3. CASE x # m
            <4>1. x \in Range(lines) /\ x \in Msgs
                BY <1>1, <2>3, <3>1, <3>3
            <4> QED
                BY <2>1, <3>1, <3>3, <4>1 DEF Known
        <3> QED
            BY <3>2, <3>3
    <2> QED
        BY <1>2, <2>1, <2>4
<1>5. ASSUME NEW m \in Msgs, Rotate(m) PROVE ReaderIsWhole'
    <2>1. UNCHANGED <<id, conv, reader>> /\ lines' = <<>>
        BY <1>5 DEF Rotate
    <2>2. Range(lines') = {}
        BY <2>1, <1>1, RangeOfLines
    <2> QED
        BY <1>2, <2>1, <2>2 DEF Known
<1>6. ASSUME NEW m \in Msgs, Push(m) PROVE ReaderIsWhole'
    <2>1. /\ place[m] = "written" /\ place' = [place EXCEPT ![m] = "pushed"]
          /\ UNCHANGED <<id, lines, conv, shown, older, gap, at>>
        BY <1>6 DEF Push, Moves, reader, file
    <2>2. m \in Busy /\ \A x \in Msgs : x # m => place'[x] = place[x]
        BY <1>1, <2>1 DEF Busy
    <2>3. \A r \in Readers : \A y \in Range(shown[r]) : id[y] < id[m]
        BY <2>2 DEF OnesTurn
    <2>4. \A x \in Known' : x \in Msgs /\ (x \in Known \/ x = m)
        BY <1>1, <2>1, <2>2 DEF Known
    <2> QED
        BY <2>1, <2>3, <2>4, ViewsStay
<1>7. ASSUME Restart PROVE ReaderIsWhole'
    BY <1>7, RestartReads DEF ReaderIsWhole
<1> QED
    BY <1>3, <1>4, <1>5, <1>6, <1>7 DEF MsgStep

\* The first answer: the ring from some message on.
LEMMA WholeReadRing ==
    ASSUME LogOK, LinesAreWritten, ReadersOK, OnesTurn, RingReachesBack, ReaderIsWhole, serial,
           ChatAssumption, NEW r \in Readers, ReadRing(r)
    PROVE  ReaderIsWhole'
<1> DEFINE all == Matching(0)
           new == Newest(all, PageCap)
<1>1. /\ UNCHANGED <<id, conv, lines, place, gap>> /\ shown'[r] = new
      /\ \A q \in Readers \ {r} : shown'[q] = shown[q] /\ older'[q] = older[q] /\ at'[q] = at[q]
    <2>1. UNCHANGED <<id, conv, lines, place, gap>>
        BY DEF ReadRing, log, file
    <2>2. shown'[r] = new /\ \A q \in Readers \ {r} : shown'[q] = shown[q]
        BY ReadRingGives DEF Gives
    <2>3. \A q \in Readers \ {r} : older'[q] = older[q] /\ at'[q] = at[q]
        BY DEF ReadRing, ReadersOK
    <2> QED
        BY <2>1, <2>2, <2>3
<1>2. new # <<>> => ~(at'[r] = "ready" /\ ~older'[r])
    BY DEF ReadRing, ReadersOK
<1>3. /\ all \in Seq(Msgs) /\ new \in Seq(Msgs) /\ Ascending(new)
      /\ \A x : x \in Range(all) <=> x \in Range(ring) /\ InThread(x) /\ id[x] > 0
      /\ \A x \in Range(new) : x \in Range(all)
      /\ \A x \in Range(all) : new # <<>> /\ id[x] >= id[new[1]] => x \in Range(new)
    BY AnswerAscends DEF OnesTurn
<1> HIDE DEF all, new
<1>4. /\ id \in [Msgs -> Nat] /\ ring \in Seq(Msgs) /\ lines \in Seq(Msgs)
      /\ \A x \in Range(ring) : x \in Msgs
      /\ \A x \in Range(lines) : x \in Msgs
      /\ \A y : y \notin Range(<<>>)
    BY RangeIs DEF LogOK, ReadersOK, Range
<1> SUFFICES ASSUME new # <<>> PROVE ViewIsWhole(r)'
    BY <1>1, OneView
<1>5. new[1] \in Range(ring) /\ id[new[1]] > 0 /\ new[1] \in Msgs /\ ring # <<>>
    <2>1. new[1] \in Range(new)
        BY <1>3, RangeIs
    <2>2. new[1] \in Range(ring) /\ id[new[1]] > 0
        BY <1>3, <2>1
    <2>3. ring # <<>>
        BY <1>4, <2>2
    <2> QED
        BY <1>4, <2>2, <2>3
<1>6. id[ring[1]] <= id[new[1]] /\ ring[1] \in Msgs
    BY <1>4, <1>5, AscendingEnds, RangeIs DEF OnesTurn
<1>7. ASSUME NEW m \in Known, InThread(m), id[m] \in id[new[1]]..id[Last(new)] PROVE m \in Range(new)
    <2>1. m \in Msgs
        BY <1>4 DEF Known
    <2>2. id[m] \in Nat /\ id[new[1]] \in Nat /\ id[ring[1]] \in Nat
        BY <1>4, <1>5, <1>6, <2>1
    <2>3. id[m] >= id[new[1]]
        BY <1>7, <2>2
    <2>4. id[m] >= id[ring[1]] /\ id[m] > 0
        BY <1>5, <1>6, <2>2, <2>3
    <2>5. m \in Range(all)
        BY <1>3, <1>5, <1>7, <2>4 DEF RingReachesBack
    <2> QED
        BY <1>3, <2>3, <2>5
<1>8. \A i, j \in DOMAIN new : i < j => id[new[i]] < id[new[j]]
    BY <1>3 DEF Ascending
<1>9. Known' = Known
    BY <1>1 DEF Known
<1> QED
    BY <1>1, <1>2, <1>7, <1>8, <1>9 DEF ViewIsWhole, Ascending, InThread

\* has_older from the file.
LEMMA WholeReadFile ==
    ASSUME ReadersOK, ReaderIsWhole, serial, NEW r \in Readers, ReadFile(r)
    PROVE  ReaderIsWhole'
<1>1. /\ UNCHANGED <<id, conv, lines, place, gap, shown>>
      /\ \A q \in Readers \ {r} : older'[q] = older[q] /\ at'[q] = at[q]
      /\ older'[r] = Before(lines, id[shown[r][1]])
    BY DEF ReadFile, log, file, ReadersOK
<1> SUFFICES ASSUME r \notin gap, shown[r] # <<>> PROVE ViewIsWhole(r)'
    BY <1>1, OneView
<1>2. ViewIsWhole(r)
    BY DEF ReaderIsWhole
<1>3. ~older'[r] => ~\E m \in Known : InThread(m) /\ id[m] < id[shown[r][1]]
    BY <1>1 DEF Before, Known
<1> QED
    BY <1>1, <1>2, <1>3 DEF ViewIsWhole, Ascending, Known, InThread

\* A page ends where the view begins.
LEMMA WholePage ==
    ASSUME LogOK, LinesAreWritten, ReadersOK, OnesTurn, ReaderIsWhole, serial,
           ChatAssumption, NEW r \in Readers, Page(r)
    PROVE  ReaderIsWhole'
<1> DEFINE s     == shown[r]
           first == id[s[1]]
           all   == ById(LinesBefore(first))
           new   == Newest(all, HistoryCap)
           v     == new \o s
<1>1. s \in Seq(Msgs) /\ s # <<>>
    BY DEF Page, ReadersOK
<1>2. /\ UNCHANGED <<id, conv, lines, place, gap>> /\ shown'[r] = v
      /\ \A q \in Readers \ {r} : shown'[q] = shown[q] /\ older'[q] = older[q] /\ at'[q] = at[q]
      /\ older'[r] = (Len(all) > HistoryCap)
    <2>1. /\ shown' = [shown EXCEPT ![r] = new \o @] /\ older' = [older EXCEPT ![r] = Len(all) > HistoryCap]
          /\ UNCHANGED <<id, conv, lines, place, gap, at>>
        BY DEF Page, log, file
    <2>2. r \in DOMAIN shown /\ r \in DOMAIN older /\ DOMAIN shown = Readers /\ DOMAIN older = Readers
        BY DEF ReadersOK
    <2> HIDE DEF all, new
    <2> QED
        BY <2>1, <2>2
<1>3. /\ all \in Seq(Msgs) /\ new \in Seq(Msgs) /\ Ascending(new)
      /\ \A x : x \in Range(all) <=> x \in Range(lines) /\ InThread(x) /\ id[x] < first
      /\ \A x \in Range(new) : x \in Range(all)
      /\ all # <<>> => new # <<>>
      /\ \A x \in Range(all) : new # <<>> /\ id[x] >= id[new[1]] => x \in Range(new)
      /\ ~(Len(all) > HistoryCap) => new = all
    BY PageAscends DEF OnesTurn
<1> HIDE DEF s, first, all, new, v
<1>4. /\ v \in Seq(Msgs) /\ v # <<>> /\ Last(v) = Last(s)
      /\ \A x : x \in Range(v) <=> x \in Range(new) \/ x \in Range(s)
      /\ new # <<>> => v[1] = new[1]
      /\ new = <<>> => v[1] = s[1]
    BY <1>1, <1>3, JoinedIs DEF v
<1>5. /\ id \in [Msgs -> Nat]
      /\ \A x \in Range(lines) : x \in Msgs
      /\ \A y : y \notin Range(<<>>)
      /\ s[1] \in Msgs /\ Last(s) \in Msgs /\ first \in Nat /\ \A y \in Range(s) : y \in Msgs
    <2>1. lines \in Seq(Msgs) /\ id \in [Msgs -> Nat]
        BY DEF LogOK
    <2>2. s[1] \in Msgs
        BY <1>1, RangeIs
    <2> QED
        BY <1>1, <2>1, <2>2, RangeIs DEF Range, first
<1> SUFFICES ASSUME r \notin gap PROVE ViewIsWhole(r)'
    BY <1>2, <1>4, OneView
<1>6. ViewIsWhole(r) /\ s = shown[r]
    BY <1>1 DEF ReaderIsWhole, s
<1>7. /\ Ascending(s)
      /\ \A m \in Known : InThread(m) /\ id[m] \in first..id[Last(s)] => m \in Range(s)
    BY <1>6 DEF ViewIsWhole, first
<1>8. Ascending(v)
    <2>1. ASSUME NEW x \in Range(new), NEW y \in Range(s) PROVE id[x] < id[y]
        <3>1. id[x] < first /\ x \in Msgs
            BY <1>3, <1>5, <2>1
        <3>2. first <= id[y] /\ y \in Msgs
            BY <1>1, <1>5, <1>7, <2>1, AscendingEnds DEF first
        <3>3. id[x] \in Nat /\ id[y] \in Nat
            BY <1>5, <3>1, <3>2
        <3> QED
            BY <1>5, <3>1, <3>2, <3>3
    <2> QED
        BY <1>1, <1>3, <1>7, <2>1, JoinedAscends DEF v
<1>9. new # <<>> => new[1] \in Range(all) /\ new[1] \in Msgs /\ id[new[1]] < first
    <2> SUFFICES ASSUME new # <<>> PROVE new[1] \in Range(all) /\ new[1] \in Msgs /\ id[new[1]] < first
        OBVIOUS
    <2>1. new[1] \in Range(new)
        BY <1>3, RangeIs
    <2>2. new[1] \in Range(all)
        BY <1>3, <2>1
    <2> QED
        BY <1>3, <1>5, <2>2
<1>10. ASSUME NEW m \in Known, InThread(m), id[m] \in id[v[1]]..id[Last(v)] PROVE m \in Range(v)
    <2>1. m \in Msgs /\ m \in Range(lines) /\ id[m] \in Nat
        BY <1>5 DEF Known
    <2>2. CASE id[m] < first
        <3>1. m \in Range(all)
            BY <1>3, <1>10, <2>1, <2>2
        <3>2. new # <<>>
            BY <1>3, <1>5, <3>1
        <3>3. id[m] >= id[new[1]]
            <4>1. id[new[1]] \in Nat /\ id[Last(s)] \in Nat
                BY <1>5, <1>9, <3>2
            <4> QED
                BY <1>4, <1>10, <2>1, <3>2, <4>1
        <3> QED
            BY <1>3, <1>4, <3>1, <3>2, <3>3
    <2>3. CASE id[m] >= first
        <3>1. id[Last(s)] \in Nat
            BY <1>5
        <3>2. id[m] <= id[Last(s)]
            <4>1. id[v[1]] \in Nat
                BY <1>4, <1>5, <1>9
            <4> QED
                BY <1>4, <1>10, <2>1, <3>1, <4>1
        <3>3. id[m] \in first..id[Last(s)]
            BY <1>5, <2>1, <2>3, <3>1, <3>2
        <3> QED
            BY <1>4, <1>7, <1>10, <3>3
    <2> QED
        BY <1>5, <2>1, <2>2, <2>3
<1>11. ASSUME ~older'[r], NEW m \in Known, InThread(m), id[m] < id[v[1]] PROVE FALSE
    <2>1. new = all
        BY <1>2, <1>3, <1>11
    <2>2. m \in Msgs /\ m \in Range(lines) /\ id[m] \in Nat
        BY <1>5 DEF Known
    <2>3. CASE new = <<>>
        <3>1. v[1] = s[1]
            BY <1>4, <2>3
        <3>2. m \in Range(all)
            BY <1>3, <1>11, <2>2, <3>1 DEF first
        <3> QED
            BY <1>5, <2>1, <2>3, <3>2
    <2>4. CASE new # <<>>
        <3>1. v[1] = new[1] /\ id[new[1]] \in Nat /\ id[new[1]] < first
            BY <1>4, <1>5, <1>9, <2>4
        <3>2. id[m] < first
            BY <1>5, <1>11, <2>2, <3>1
        <3>3. m \in Range(new)
            BY <1>3, <1>11, <2>1, <2>2, <3>2
        <3>4. id[new[1]] <= id[m]
            BY <1>3, <1>5, <3>3, AscendingEnds
        <3> QED
            BY <1>11, <2>2, <3>1, <3>4
    <2> QED
        BY <2>3, <2>4
<1>12. Known' = Known
    BY <1>2 DEF Known
<1> QED
    BY <1>2, <1>8, <1>10, <1>11, <1>12 DEF ViewIsWhole, Ascending, InThread

\* What is newer than the view, if it fits in one answer and is all in the ring.
LEMMA WholePoll ==
    ASSUME LogOK, LinesAreWritten, ReadersOK, OnesTurn, SeedIsShown, ReaderIsWhole, serial,
           ChatAssumption, NEW r \in Readers, Poll(r)
    PROVE  ReaderIsWhole'
<1> DEFINE s     == shown[r]
           since == id[Last(s)]
           all   == Matching(since)
           v     == s \o all
<1>1. s \in Seq(Msgs) /\ s # <<>> /\ all # <<>>
    BY DEF Poll, ReadersOK
<1>2. /\ UNCHANGED <<id, conv, lines, place, older, at>> /\ gap \subseteq gap'
      /\ \A q \in Readers \ {r} : shown'[q] = shown[q]
      /\ shown'[r] = s \o Newest(all, PageCap)
      /\ r \notin gap' => /\ ~(Len(all) > PageCap)
                          /\ ~\E m \in Range(lines) \ Range(ring) :
                                place[m] \in {"pushed", "sent"} /\ InThread(m) /\ id[m] > since
    <2> DEFINE Late == \E m \in Range(lines) \ Range(ring) :
                                place[m] \in {"pushed", "sent"} /\ InThread(m) /\ id[m] > since
    <2>1. /\ UNCHANGED <<id, conv, lines, place, older, at>>
          /\ shown' = [shown EXCEPT ![r] = @ \o Newest(all, PageCap)]
          /\ gap' = IF Len(all) > PageCap \/ Late THEN gap \cup {r} ELSE gap
        BY DEF Poll, log, file
    <2>2. DOMAIN shown = Readers
        BY DEF ReadersOK
    <2> HIDE DEF all, Late
    <2>3. shown'[r] = s \o Newest(all, PageCap) /\ \A q \in Readers \ {r} : shown'[q] = shown[q]
        BY <2>1, <2>2
    <2>4. gap \subseteq gap' /\ (r \notin gap' => ~(Len(all) > PageCap) /\ ~Late)
        BY <2>1
    <2> QED
        BY <2>1, <2>3, <2>4 DEF Late
<1>3. /\ all \in Seq(Msgs) /\ Ascending(all)
      /\ \A x : x \in Range(all) <=> x \in Range(ring) /\ InThread(x) /\ id[x] > since
      /\ Len(all) <= PageCap => Newest(all, PageCap) = all
    BY AnswerAscends DEF OnesTurn
<1> HIDE DEF s, since, all, v
<1>4. v \in Seq(Msgs) /\ v # <<>> /\ v[1] = s[1] /\ \A x : x \in Range(v) <=> x \in Range(s) \/ x \in Range(all)
    BY <1>1, <1>3, JoinedIs DEF v
<1>5. /\ id \in [Msgs -> Nat] /\ \A x \in Range(lines) : x \in Msgs
      /\ s[1] \in Msgs /\ Last(s) \in Msgs /\ Last(s) \in Range(s) /\ since \in Nat /\ \A y \in Range(s) : y \in Msgs
      /\ \A y \in Range(all) : y \in Msgs
    <2>1. lines \in Seq(Msgs) /\ id \in [Msgs -> Nat]
        BY DEF LogOK
    <2>2. s[1] \in Msgs /\ Last(s) \in Msgs
        BY <1>1, RangeIs
    <2> QED
        BY <1>1, <1>3, <2>1, <2>2, RangeIs DEF since
<1> SUFFICES ASSUME r \notin gap', r \notin gap PROVE ViewIsWhole(r)'
    BY <1>2, OneView
<1>6. shown'[r] = v
    <2>1. Len(all) \in Nat /\ PageCap \in Nat
        BY <1>3, RangeIs DEF ChatAssumption
    <2>2. Len(all) <= PageCap
        BY <1>2, <2>1
    <2> QED
        BY <1>2, <1>3, <2>2 DEF v
<1>7. ViewIsWhole(r) /\ s = shown[r]
    BY <1>1 DEF ReaderIsWhole, s
<1>8. /\ Ascending(s)
      /\ \A m \in Known : InThread(m) /\ id[m] \in id[s[1]]..since => m \in Range(s)
      /\ at[r] = "ready" /\ ~older[r] => ~\E m \in Known : InThread(m) /\ id[m] < id[s[1]]
    BY <1>7 DEF ViewIsWhole, since
<1>9. Ascending(v)
    <2>1. ASSUME NEW x \in Range(s), NEW y \in Range(all) PROVE id[x] < id[y]
        <3>1. id[x] <= since /\ since < id[y]
            BY <1>1, <1>3, <1>5, <1>8, <2>1, AscendingEnds DEF since
        <3>2. id[x] \in Nat /\ id[y] \in Nat
            BY <1>5, <2>1
        <3> QED
            BY <1>5, <3>1, <3>2
    <2> QED
        BY <1>1, <1>3, <1>8, <2>1, JoinedAscends DEF v
<1>10. ASSUME NEW m \in Known, InThread(m), id[m] >= id[s[1]] PROVE m \in Range(v)
    <2>1. m \in Msgs /\ m \in Range(lines) /\ id[m] \in Nat /\ place[m] \in {"pushed", "sent", "loaded"}
        BY <1>5 DEF Known
    <2>2. id[s[1]] \in Nat
        BY <1>5
    <2>3. CASE id[m] <= since
        <3>1. id[m] \in id[s[1]]..since
            BY <1>5, <1>10, <2>1, <2>2, <2>3
        <3> QED
            BY <1>4, <1>8, <1>10, <3>1
    <2>4. CASE id[m] > since
        <3>1. place[m] # "loaded"
            <4>1. place[m] = "loaded" => id[m] <= since
                BY <1>1, <1>7, <1>10, <2>1 DEF SeedIsShown, since
            <4> QED
                BY <1>5, <2>1, <2>4, <4>1
        <3>2. m \in Range(ring)
            BY <1>2, <1>10, <2>1, <2>4, <3>1
        <3> QED
            BY <1>3, <1>4, <1>10, <2>4, <3>2
    <2> QED
        BY <1>5, <2>1, <2>3, <2>4
<1>11. id[Last(v)] \in Nat /\ id[v[1]] \in Nat
    <2>1. Last(v) \in Msgs
        BY <1>4, RangeIs
    <2> QED
        BY <1>4, <1>5, <2>1
<1>12. ASSUME NEW m \in Known, InThread(m), id[m] \in id[v[1]]..id[Last(v)] PROVE m \in Range(v)
    <2>1. id[m] \in Nat
        BY <1>5 DEF Known
    <2>2. id[m] >= id[v[1]]
        BY <1>11, <1>12, <2>1
    <2> QED
        BY <1>4, <1>10, <1>12, <2>2
<1>13. Known' = Known
    BY <1>2 DEF Known
<1> QED
    BY <1>2, <1>4, <1>6, <1>8, <1>9, <1>12, <1>13 DEF ViewIsWhole, Ascending, InThread

\* Every step leaves the views whole.
LEMMA WholeStep ==
    ASSUME LogOK, LogOK', LinesAreWritten, ReadersOK, AllHaveIds, OnesTurn, RingReachesBack, SeedIsShown,
           ReaderIsWhole, serial, ChatAssumption, [ChatNext]_chatVars
    PROVE  ReaderIsWhole'
<1>1. CASE Restart \/ \E m \in Msgs : MsgStep(m)
    BY <1>1, WholeLogStep
<1>2. ASSUME UNCHANGED <<id, conv, lines, place, shown, older, gap>>,
             \A r \in Readers : at'[r] = "ready" => at[r] = "ready"
      PROVE  ReaderIsWhole'
    <2>1. \A x \in Known' : x \in Msgs /\ x \in Known /\ id'[x] = id[x]
        <3>1. \A x \in Range(lines) : x \in Msgs
            BY RangeIs DEF LogOK
        <3> QED
            BY <1>2, <3>1 DEF Known
    <2> QED
        BY <1>2, <2>1, ViewsStay
<1>3. ASSUME NEW r \in Readers, ReaderStep(r) PROVE ReaderIsWhole'
    <2>1. CASE Subscribe(r)
        <3>1. at' = [at EXCEPT ![r] = "open"] /\ UNCHANGED <<id, conv, lines, place, shown, older, gap>>
            BY <2>1 DEF Subscribe, log, file
        <3>2. \A q \in Readers : at'[q] = "ready" => at[q] = "ready"
            BY <3>1 DEF ReadersOK
        <3> QED
            BY <1>2, <3>1, <3>2
    <2>2. CASE Receive(r)
        BY <1>2, <2>2 DEF Receive, log, file
    <2>3. CASE ReadRing(r)
        BY <2>3, WholeReadRing
    <2>4. CASE ReadFile(r)
        BY <2>4, WholeReadFile
    <2>5. CASE Page(r)
        BY <2>5, WholePage
    <2>6. CASE Poll(r)
        BY <2>6, WholePoll
    <2> QED
        BY <1>3, <2>1, <2>2, <2>3, <2>4, <2>5, <2>6 DEF ReaderStep
<1>4. CASE UNCHANGED chatVars
    BY <1>2, <1>4 DEF chatVars, log, file, reader
<1> QED
    BY <1>1, <1>3, <1>4 DEF ChatNext

\* Messages that overlapped once did.
LEMMA SerialFalls ==
    ASSUME [ChatNext]_chatVars, serial'
    PROVE  serial
BY DEF ChatNext, MsgStep, ReaderStep, TakeId, Measure, Rotate, OpenLines, Write, LineFails,
   LineTorn, Push, Send, SenderLeaves,
       Restart, Subscribe, ReadRing, ReadFile, Page, Poll, Receive, past, chatVars

LEMMA ReadInit == ChatInit => ReadInv
<1> SUFFICES ASSUME ChatInit PROVE ReadInv
    OBVIOUS
<1>1. /\ lines = <<>> /\ ring = <<>> /\ bus = <<>> /\ \A r \in Readers : shown[r] = <<>>
      /\ \A m \in Msgs : place[m] = "idle"
      /\ \A r \in Readers : at[r] = "away" /\ older[r] = FALSE /\ next[r] = 1
    BY DEF ChatInit
<1>2. <<>> \in Seq(Msgs) /\ Len(<<>>) = 0 /\ Range(<<>>) = {} /\ DOMAIN <<>> = {}
    BY RangeOfLines, EmptySeq DEF Range
<1>3. ChatInv
    BY ChatStart
<1>4. ReadersOK
    <2>1. shown \in [Readers -> Seq(Msgs)]
        BY <1>2 DEF ChatInit
    <2>2. \A r \in Readers : next[r] \in 1..(Len(bus) + 1)
        <3>1. Len(bus) = 0
            BY <1>1, <1>2
        <3>2. \A r \in Readers : next[r] \in 1..(0 + 1)
            BY <1>1
        <3> QED
            BY <3>1, <3>2
    <2>3. /\ at \in [Readers -> {"away", "open", "reading", "ready"}] /\ older \in [Readers -> BOOLEAN]
          /\ next \in [Readers -> Nat] /\ heard \in [Readers -> SUBSET Msgs] /\ left \in [Readers -> SUBSET Msgs]
        BY DEF ChatInit
    <2>4. ring \in Seq(Msgs) /\ bus \in Seq(Msgs)
        BY <1>1, <1>2
    <2> QED
        BY <1>1, <2>1, <2>2, <2>3, <2>4 DEF ReadersOK
<1>5. Busy = {}
    BY <1>1 DEF Busy, Appending, Holding
<1>6. Range(ring) = {} /\ Range(lines) = {} /\ \A r \in Readers : Range(shown[r]) = {}
    BY <1>1, <1>2
<1>7. AllHaveIds /\ NothingMissed
    BY <1>1, <1>5, <1>6 DEF AllHaveIds, NothingMissed
<1>8. OnesTurn
    BY <1>1, <1>2, <1>5 DEF OnesTurn, Ascending
<1> QED
    BY <1>1, <1>3, <1>4, <1>6, <1>7, <1>8 DEF ReadInv, RingReachesBack, SeedIsShown, ReaderIsWhole

LEMMA ReadStep ==
    ASSUME ReadInv, [ChatNext]_chatVars
    PROVE  ReadInv'
<1>1. ChatInv /\ LogOK /\ LinesAreWritten /\ ReadersOK /\ AllHaveIds /\ NothingMissed
    BY DEF ReadInv, ChatInv
<1>2. ChatInv' /\ LogOK'
    BY <1>1, ChatStep DEF ChatInv
<1>3. ReadersOK' /\ AllHaveIds' /\ NothingMissed'
    BY <1>1, ChatAssumption, ReadersType, HaveIdsStep, MissedStep
<1>4. ASSUME serial' PROVE OnesTurn' /\ RingReachesBack' /\ SeedIsShown' /\ ReaderIsWhole'
    <2>1. serial
        BY <1>4, SerialFalls
    <2>2. OnesTurn /\ RingReachesBack /\ SeedIsShown /\ ReaderIsWhole
        BY <2>1 DEF ReadInv
    <2> QED
        BY <1>1, <1>2, <1>4, <2>1, <2>2, ChatAssumption, TurnStep, BackStep, SeedStep, WholeStep
<1> QED
    BY <1>2, <1>3, <1>4 DEF ReadInv

\* What file, ring and readers have of each other, for any number of messages, readers,
\* restarts and faults, and any caps.
THEOREM ReadInvariant == ChatSpec => []ReadInv
BY ReadInit, ReadStep, PTL DEF ChatSpec

\* Whoever subscribed before it asked has every message that was sent, or will receive
\* it, unless it fell behind the buffer or the ring had the message when it was asked.
THEOREM NothingIsMissed == ChatSpec => []NothingMissed
<1>1. ReadInv => NothingMissed
    BY DEF ReadInv
<1> QED
    BY <1>1, ReadInvariant, PTL

\* What a reader is shown is in order and lacks nothing, and has_older is true to the
\* file, as long as no two messages were in log_chat together.
THEOREM ViewsAreWhole == ChatSpec => []ReaderIsWhole
<1>1. ReadInv => ReaderIsWhole
    BY DEF ReadInv, ReaderIsWhole
<1> QED
    BY <1>1, ReadInvariant, PTL
=============================================================================
