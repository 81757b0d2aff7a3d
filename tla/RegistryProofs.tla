--------------------------- MODULE RegistryProofs ---------------------------
(***************************************************************************)
(* The safety of the registry for any number of names, calls and tokens.   *)
(*                                                                         *)
(* The argument: a token was minted by a call for one name, and a call     *)
(* keeps what it asked for, so a token resolved before a lock is as right  *)
(* about the name after it.  An entry made with a caller token keeps it,   *)
(* so while the entry stands that a call's token was resolved against, the *)
(* name and the token are one right.  A name has one entry, so the entry   *)
(* that holds a call's token is the one its last read finds.               *)
(***************************************************************************)
EXTENDS Registry, TLAPS

\* Every step keeps the types.
LEMMA TypeStep ==
    ASSUME TypeOK, [Next]_vars
    PROVE  TypeOK'
<1> USE DEF TypeOK, Peer, Request, NoRequest, Ops, Running, Ended, Shared, Tokens
<1>1. ASSUME NEW c \in Calls, RegisterClassify(c) PROVE TypeOK'
    BY <1>1, ConstantsAssumption DEF RegisterClassify, Begin, Named
<1>2. ASSUME NEW c \in Calls, Resolve(c) PROVE TypeOK'
    BY <1>2, ConstantsAssumption DEF Resolve, Begin, ResolvesTo, Named
<1>3. ASSUME NEW c \in Calls, Unauthorized(c) PROVE TypeOK'
    BY <1>3, ConstantsAssumption DEF Unauthorized, Proceed
<1>4. ASSUME NEW c \in Calls, Abandon(c) PROVE TypeOK'
    BY <1>4, ConstantsAssumption DEF Abandon, Proceed, Running
<1>5. ASSUME NEW c \in Calls, RegisterConflict(c) PROVE TypeOK'
    BY <1>5, ConstantsAssumption DEF RegisterConflict, At, Proceed
<1>6. ASSUME NEW c \in Calls, RegisterExisting(c) PROVE TypeOK'
    BY <1>6, ConstantsAssumption DEF RegisterExisting, At, Proceed, Named, Replaced, Refreshed,
       MayManage
<1>7. ASSUME NEW c \in Calls, RegisterNew(c) PROVE TypeOK'
    <2>1. NewAgent(c) \in Peer
        BY <1>7 DEF RegisterNew, At, NewAgent
    <2> QED
        BY <1>7, <2>1 DEF RegisterNew, Proceed
<1>8. ASSUME NEW c \in Calls, RegisterRead(c) PROVE TypeOK'
    BY <1>8, ConstantsAssumption DEF RegisterRead, Proceed, Named
<1>9. ASSUME NEW c \in Calls, PatchRefused(c) PROVE TypeOK'
    BY <1>9, ConstantsAssumption DEF PatchRefused, At, Proceed
<1>10. ASSUME NEW c \in Calls, PatchApply(c) PROVE TypeOK'
    BY <1>10, ConstantsAssumption DEF PatchApply, At, Proceed, Named, Replaced, Refreshed, MayManage
<1>11. ASSUME NEW c \in Calls, Deregister(c) PROVE TypeOK'
    BY <1>11, ConstantsAssumption DEF Deregister, At, Proceed, Removable
<1>12. ASSUME NEW c \in Calls, ChannelRefused(c) PROVE TypeOK'
    BY <1>12, ConstantsAssumption DEF ChannelRefused, At, Proceed
<1>13. ASSUME NEW c \in Calls, ChannelCheck(c) PROVE TypeOK'
    BY <1>13, ConstantsAssumption DEF ChannelCheck, At, Proceed, Named, MayManage
<1>14. ASSUME NEW c \in Calls, ChannelBind(c) PROVE TypeOK'
    BY <1>14, ConstantsAssumption DEF ChannelBind, Proceed
<1>15. ASSUME NEW c \in Calls, ChannelEnd(c) PROVE TypeOK'
    BY <1>15, ConstantsAssumption DEF ChannelEnd, Proceed
<1>16. ASSUME NEW n \in Names, NEW s \in {"Accepted", "Revoked"}, SetState(n, s) PROVE TypeOK'
    BY <1>16, ConstantsAssumption DEF SetState, WithState, Refreshed, callVars
<1>17. ASSUME NEW n \in Names, Reject(n) PROVE TypeOK'
    BY <1>17, ConstantsAssumption DEF Reject, callVars
<1>18. ASSUME NEW n \in Names, Delete(n) PROVE TypeOK'
    BY <1>18, ConstantsAssumption DEF Delete, callVars
<1>19. ASSUME NEW n \in Names, DeleteHuman(n) PROVE TypeOK'
    BY <1>19, ConstantsAssumption DEF DeleteHuman, callVars
<1>20. ASSUME NEW n \in Names, NEW c \in Calls, CreateHuman(c, n) PROVE TypeOK'
    BY <1>20, ConstantsAssumption DEF CreateHuman, NewHuman, Named
<1>21. ASSUME RegenerateBootstrap PROVE TypeOK'
    BY <1>21, ConstantsAssumption DEF RegenerateBootstrap, callVars
<1>22. ASSUME UNCHANGED vars PROVE TypeOK'
    BY <1>22 DEF vars, callVars
<1> QED
    BY <1>1, <1>2, <1>3, <1>4, <1>5, <1>6, <1>7, <1>8, <1>9, <1>10, <1>11,
       <1>12, <1>13, <1>14, <1>15, <1>16, <1>17, <1>18, <1>19, <1>20, <1>21, <1>22 DEF Next, CallStep, OperatorStep

\* A name keeps at most one entry.
LEMMA UniqueStep ==
    ASSUME TypeOK, NamesUnique, [Next]_vars
    PROVE  NamesUnique'
<1> USE DEF TypeOK, NamesUnique, Peer
<1>1. ASSUME NEW c \in Calls, RegisterClassify(c) PROVE NamesUnique'
    BY <1>1 DEF RegisterClassify, Begin
<1>2. ASSUME NEW c \in Calls, Resolve(c) PROVE NamesUnique'
    BY <1>2 DEF Resolve, Begin, ResolvesTo
<1>3. ASSUME NEW c \in Calls, Unauthorized(c) PROVE NamesUnique'
    BY <1>3 DEF Unauthorized, Proceed
<1>4. ASSUME NEW c \in Calls, Abandon(c) PROVE NamesUnique'
    BY <1>4 DEF Abandon, Proceed, Running
<1>5. ASSUME NEW c \in Calls, RegisterConflict(c) PROVE NamesUnique'
    BY <1>5 DEF RegisterConflict, At, Proceed
<1>6. ASSUME NEW c \in Calls, RegisterExisting(c) PROVE NamesUnique'
    BY <1>6 DEF RegisterExisting, At, Proceed, Named, Replaced, Refreshed, MayManage
<1>7. ASSUME NEW c \in Calls, RegisterNew(c) PROVE NamesUnique'
    BY <1>7 DEF RegisterNew, At, Proceed, Named, NewAgent
<1>8. ASSUME NEW c \in Calls, RegisterRead(c) PROVE NamesUnique'
    BY <1>8 DEF RegisterRead, Proceed, Named
<1>9. ASSUME NEW c \in Calls, PatchRefused(c) PROVE NamesUnique'
    BY <1>9 DEF PatchRefused, At, Proceed
<1>10. ASSUME NEW c \in Calls, PatchApply(c) PROVE NamesUnique'
    BY <1>10 DEF PatchApply, At, Proceed, Named, Replaced, Refreshed, MayManage
<1>11. ASSUME NEW c \in Calls, Deregister(c) PROVE NamesUnique'
    BY <1>11 DEF Deregister, At, Proceed, Removable
<1>12. ASSUME NEW c \in Calls, ChannelRefused(c) PROVE NamesUnique'
    BY <1>12 DEF ChannelRefused, At, Proceed
<1>13. ASSUME NEW c \in Calls, ChannelCheck(c) PROVE NamesUnique'
    BY <1>13 DEF ChannelCheck, At, Proceed, Named, MayManage
<1>14. ASSUME NEW c \in Calls, ChannelBind(c) PROVE NamesUnique'
    BY <1>14 DEF ChannelBind, Proceed
<1>15. ASSUME NEW c \in Calls, ChannelEnd(c) PROVE NamesUnique'
    BY <1>15 DEF ChannelEnd, Proceed
<1>16. ASSUME NEW n \in Names, NEW s \in {"Accepted", "Revoked"}, SetState(n, s) PROVE NamesUnique'
    BY <1>16 DEF SetState, WithState, Refreshed, callVars
<1>17. ASSUME NEW n \in Names, Reject(n) PROVE NamesUnique'
    BY <1>17 DEF Reject, callVars
<1>18. ASSUME NEW n \in Names, Delete(n) PROVE NamesUnique'
    BY <1>18 DEF Delete, callVars
<1>19. ASSUME NEW n \in Names, DeleteHuman(n) PROVE NamesUnique'
    BY <1>19 DEF DeleteHuman, callVars
<1>20. ASSUME NEW n \in Names, NEW c \in Calls, CreateHuman(c, n) PROVE NamesUnique'
    BY <1>20 DEF CreateHuman, NewHuman, Named
<1>21. ASSUME RegenerateBootstrap PROVE NamesUnique'
    BY <1>21 DEF RegenerateBootstrap, callVars
<1>22. ASSUME UNCHANGED vars PROVE NamesUnique'
    BY <1>22 DEF vars, callVars
<1> QED
    BY <1>1, <1>2, <1>3, <1>4, <1>5, <1>6, <1>7, <1>8, <1>9, <1>10, <1>11,
       <1>12, <1>13, <1>14, <1>15, <1>16, <1>17, <1>18, <1>19, <1>20, <1>21, <1>22 DEF Next, CallStep, OperatorStep

\* What is referred to has begun.
LEMMA IdleStep ==
    ASSUME TypeOK, IdleUnused, [Next]_vars
    PROVE  IdleUnused'
<1> USE DEF TypeOK, IdleUnused, Peer, Running, Request, NoRequest, Ops, Tokens, Shared
<1>1. ASSUME NEW c \in Calls, RegisterClassify(c) PROVE IdleUnused'
    BY <1>1, ConstantsAssumption DEF RegisterClassify, Begin
<1>2. ASSUME NEW c \in Calls, Resolve(c) PROVE IdleUnused'
    BY <1>2, ConstantsAssumption DEF Resolve, Begin, ResolvesTo
<1>3. ASSUME NEW c \in Calls, Unauthorized(c) PROVE IdleUnused'
    BY <1>3, ConstantsAssumption DEF Unauthorized, Proceed
<1>4. ASSUME NEW c \in Calls, Abandon(c) PROVE IdleUnused'
    BY <1>4, ConstantsAssumption DEF Abandon, Proceed, Running
<1>5. ASSUME NEW c \in Calls, RegisterConflict(c) PROVE IdleUnused'
    BY <1>5, ConstantsAssumption DEF RegisterConflict, At, Proceed
<1>6. ASSUME NEW c \in Calls, RegisterExisting(c) PROVE IdleUnused'
    BY <1>6, ConstantsAssumption DEF RegisterExisting, At, Proceed, Named, Replaced, Refreshed,
       MayManage
<1>7. ASSUME NEW c \in Calls, RegisterNew(c) PROVE IdleUnused'
    BY <1>7, ConstantsAssumption DEF RegisterNew, At, Proceed, Named, NewAgent
<1>8. ASSUME NEW c \in Calls, RegisterRead(c) PROVE IdleUnused'
    BY <1>8, ConstantsAssumption DEF RegisterRead, Proceed, Named
<1>9. ASSUME NEW c \in Calls, PatchRefused(c) PROVE IdleUnused'
    BY <1>9, ConstantsAssumption DEF PatchRefused, At, Proceed
<1>10. ASSUME NEW c \in Calls, PatchApply(c) PROVE IdleUnused'
    BY <1>10, ConstantsAssumption DEF PatchApply, At, Proceed, Named, Replaced, Refreshed, MayManage
<1>11. ASSUME NEW c \in Calls, Deregister(c) PROVE IdleUnused'
    BY <1>11, ConstantsAssumption DEF Deregister, At, Proceed, Removable
<1>12. ASSUME NEW c \in Calls, ChannelRefused(c) PROVE IdleUnused'
    BY <1>12, ConstantsAssumption DEF ChannelRefused, At, Proceed
<1>13. ASSUME NEW c \in Calls, ChannelCheck(c) PROVE IdleUnused'
    BY <1>13, ConstantsAssumption DEF ChannelCheck, At, Proceed, Named, MayManage
<1>14. ASSUME NEW c \in Calls, ChannelBind(c) PROVE IdleUnused'
    BY <1>14, ConstantsAssumption DEF ChannelBind, Proceed
<1>15. ASSUME NEW c \in Calls, ChannelEnd(c) PROVE IdleUnused'
    BY <1>15, ConstantsAssumption DEF ChannelEnd, Proceed
<1>16. ASSUME NEW n \in Names, NEW s \in {"Accepted", "Revoked"}, SetState(n, s) PROVE IdleUnused'
    BY <1>16, ConstantsAssumption DEF SetState, WithState, Refreshed, callVars
<1>17. ASSUME NEW n \in Names, Reject(n) PROVE IdleUnused'
    BY <1>17, ConstantsAssumption DEF Reject, callVars
<1>18. ASSUME NEW n \in Names, Delete(n) PROVE IdleUnused'
    BY <1>18, ConstantsAssumption DEF Delete, callVars
<1>19. ASSUME NEW n \in Names, DeleteHuman(n) PROVE IdleUnused'
    BY <1>19, ConstantsAssumption DEF DeleteHuman, callVars
<1>20. ASSUME NEW n \in Names, NEW c \in Calls, CreateHuman(c, n) PROVE IdleUnused'
    BY <1>20, ConstantsAssumption DEF CreateHuman, NewHuman, Named
<1>21. ASSUME RegenerateBootstrap PROVE IdleUnused'
    BY <1>21, ConstantsAssumption DEF RegenerateBootstrap, callVars
<1>22. ASSUME UNCHANGED vars PROVE IdleUnused'
    BY <1>22 DEF vars, callVars
<1> QED
    BY <1>1, <1>2, <1>3, <1>4, <1>5, <1>6, <1>7, <1>8, <1>9, <1>10, <1>11,
       <1>12, <1>13, <1>14, <1>15, <1>16, <1>17, <1>18, <1>19, <1>20, <1>21, <1>22 DEF Next, CallStep, OperatorStep

\* What a token resolved to stays right.
LEMMA ResolvedStep ==
    ASSUME TypeOK, TokenOfName, IdleUnused, ResolvedRight, [Next]_vars
    PROVE  ResolvedRight'
<1> USE DEF TypeOK, TokenOfName, IdleUnused, ResolvedRight, Peer, Running, Request, NoRequest, Tokens, Shared
<1>1. ASSUME NEW c \in Calls, RegisterClassify(c) PROVE ResolvedRight'
    BY <1>1, ConstantsAssumption DEF RegisterClassify, Begin
<1>2. ASSUME NEW c \in Calls, Resolve(c) PROVE ResolvedRight'
    BY <1>2, ConstantsAssumption DEF Resolve, Begin, ResolvesTo
<1>3. ASSUME NEW c \in Calls, Unauthorized(c) PROVE ResolvedRight'
    BY <1>3, ConstantsAssumption DEF Unauthorized, Proceed
<1>4. ASSUME NEW c \in Calls, Abandon(c) PROVE ResolvedRight'
    BY <1>4, ConstantsAssumption DEF Abandon, Proceed, Running
<1>5. ASSUME NEW c \in Calls, RegisterConflict(c) PROVE ResolvedRight'
    BY <1>5, ConstantsAssumption DEF RegisterConflict, At, Proceed
<1>6. ASSUME NEW c \in Calls, RegisterExisting(c) PROVE ResolvedRight'
    BY <1>6, ConstantsAssumption DEF RegisterExisting, At, Proceed, Named, Replaced, Refreshed,
       MayManage
<1>7. ASSUME NEW c \in Calls, RegisterNew(c) PROVE ResolvedRight'
    BY <1>7, ConstantsAssumption DEF RegisterNew, At, Proceed, Named, NewAgent
<1>8. ASSUME NEW c \in Calls, RegisterRead(c) PROVE ResolvedRight'
    BY <1>8, ConstantsAssumption DEF RegisterRead, Proceed, Named
<1>9. ASSUME NEW c \in Calls, PatchRefused(c) PROVE ResolvedRight'
    BY <1>9, ConstantsAssumption DEF PatchRefused, At, Proceed
<1>10. ASSUME NEW c \in Calls, PatchApply(c) PROVE ResolvedRight'
    BY <1>10, ConstantsAssumption DEF PatchApply, At, Proceed, Named, Replaced, Refreshed, MayManage
<1>11. ASSUME NEW c \in Calls, Deregister(c) PROVE ResolvedRight'
    BY <1>11, ConstantsAssumption DEF Deregister, At, Proceed, Removable
<1>12. ASSUME NEW c \in Calls, ChannelRefused(c) PROVE ResolvedRight'
    BY <1>12, ConstantsAssumption DEF ChannelRefused, At, Proceed
<1>13. ASSUME NEW c \in Calls, ChannelCheck(c) PROVE ResolvedRight'
    BY <1>13, ConstantsAssumption DEF ChannelCheck, At, Proceed, Named, MayManage
<1>14. ASSUME NEW c \in Calls, ChannelBind(c) PROVE ResolvedRight'
    BY <1>14, ConstantsAssumption DEF ChannelBind, Proceed
<1>15. ASSUME NEW c \in Calls, ChannelEnd(c) PROVE ResolvedRight'
    BY <1>15, ConstantsAssumption DEF ChannelEnd, Proceed
<1>16. ASSUME NEW n \in Names, NEW s \in {"Accepted", "Revoked"}, SetState(n, s) PROVE ResolvedRight'
    BY <1>16, ConstantsAssumption DEF SetState, WithState, Refreshed, callVars
<1>17. ASSUME NEW n \in Names, Reject(n) PROVE ResolvedRight'
    BY <1>17, ConstantsAssumption DEF Reject, callVars
<1>18. ASSUME NEW n \in Names, Delete(n) PROVE ResolvedRight'
    BY <1>18, ConstantsAssumption DEF Delete, callVars
<1>19. ASSUME NEW n \in Names, DeleteHuman(n) PROVE ResolvedRight'
    BY <1>19, ConstantsAssumption DEF DeleteHuman, callVars
<1>20. ASSUME NEW n \in Names, NEW c \in Calls, CreateHuman(c, n) PROVE ResolvedRight'
    BY <1>20, ConstantsAssumption DEF CreateHuman, NewHuman, Named
<1>21. ASSUME RegenerateBootstrap PROVE ResolvedRight'
    BY <1>21, ConstantsAssumption DEF RegenerateBootstrap, callVars
<1>22. ASSUME UNCHANGED vars PROVE ResolvedRight'
    BY <1>22, SMTT(30) DEF vars, callVars
<1> QED
    BY <1>1, <1>2, <1>3, <1>4, <1>5, <1>6, <1>7, <1>8, <1>9, <1>10, <1>11,
       <1>12, <1>13, <1>14, <1>15, <1>16, <1>17, <1>18, <1>19, <1>20, <1>21, <1>22 DEF Next, CallStep, OperatorStep

\* A token is its entry's by the name it was asked for.
LEMMA TokenStep ==
    ASSUME TypeOK, IdleUnused, TokenOfName, [Next]_vars
    PROVE  TokenOfName'
<1> USE DEF TypeOK, IdleUnused, TokenOfName, Peer, Running, Request, NoRequest, Tokens, Shared
<1>1. ASSUME NEW c \in Calls, RegisterClassify(c) PROVE TokenOfName'
    BY <1>1, ConstantsAssumption DEF RegisterClassify, Begin
<1>2. ASSUME NEW c \in Calls, Resolve(c) PROVE TokenOfName'
    BY <1>2, ConstantsAssumption DEF Resolve, Begin, ResolvesTo
<1>3. ASSUME NEW c \in Calls, Unauthorized(c) PROVE TokenOfName'
    BY <1>3, ConstantsAssumption DEF Unauthorized, Proceed
<1>4. ASSUME NEW c \in Calls, Abandon(c) PROVE TokenOfName'
    BY <1>4, ConstantsAssumption DEF Abandon, Proceed, Running
<1>5. ASSUME NEW c \in Calls, RegisterConflict(c) PROVE TokenOfName'
    BY <1>5, ConstantsAssumption DEF RegisterConflict, At, Proceed
<1>6. ASSUME NEW c \in Calls, RegisterExisting(c) PROVE TokenOfName'
    BY <1>6, ConstantsAssumption DEF RegisterExisting, At, Proceed, Named, Replaced, Refreshed,
       MayManage
<1>7. ASSUME NEW c \in Calls, RegisterNew(c) PROVE TokenOfName'
    BY <1>7, ConstantsAssumption DEF RegisterNew, At, Proceed, Named, NewAgent
<1>8. ASSUME NEW c \in Calls, RegisterRead(c) PROVE TokenOfName'
    BY <1>8, ConstantsAssumption DEF RegisterRead, Proceed, Named
<1>9. ASSUME NEW c \in Calls, PatchRefused(c) PROVE TokenOfName'
    BY <1>9, ConstantsAssumption DEF PatchRefused, At, Proceed
<1>10. ASSUME NEW c \in Calls, PatchApply(c) PROVE TokenOfName'
    BY <1>10, ConstantsAssumption DEF PatchApply, At, Proceed, Named, Replaced, Refreshed, MayManage
<1>11. ASSUME NEW c \in Calls, Deregister(c) PROVE TokenOfName'
    BY <1>11, ConstantsAssumption DEF Deregister, At, Proceed, Removable
<1>12. ASSUME NEW c \in Calls, ChannelRefused(c) PROVE TokenOfName'
    BY <1>12, ConstantsAssumption DEF ChannelRefused, At, Proceed
<1>13. ASSUME NEW c \in Calls, ChannelCheck(c) PROVE TokenOfName'
    BY <1>13, ConstantsAssumption DEF ChannelCheck, At, Proceed, Named, MayManage
<1>14. ASSUME NEW c \in Calls, ChannelBind(c) PROVE TokenOfName'
    BY <1>14, ConstantsAssumption DEF ChannelBind, Proceed
<1>15. ASSUME NEW c \in Calls, ChannelEnd(c) PROVE TokenOfName'
    BY <1>15, ConstantsAssumption DEF ChannelEnd, Proceed
<1>16. ASSUME NEW n \in Names, NEW s \in {"Accepted", "Revoked"}, SetState(n, s) PROVE TokenOfName'
    BY <1>16, ConstantsAssumption DEF SetState, WithState, Refreshed, callVars
<1>17. ASSUME NEW n \in Names, Reject(n) PROVE TokenOfName'
    BY <1>17, ConstantsAssumption DEF Reject, callVars
<1>18. ASSUME NEW n \in Names, Delete(n) PROVE TokenOfName'
    BY <1>18, ConstantsAssumption DEF Delete, callVars
<1>19. ASSUME NEW n \in Names, DeleteHuman(n) PROVE TokenOfName'
    BY <1>19, ConstantsAssumption DEF DeleteHuman, callVars
<1>20. ASSUME NEW n \in Names, NEW c \in Calls, CreateHuman(c, n) PROVE TokenOfName'
    BY <1>20, ConstantsAssumption DEF CreateHuman, NewHuman, Named
<1>21. ASSUME RegenerateBootstrap PROVE TokenOfName'
    BY <1>21, ConstantsAssumption DEF RegenerateBootstrap, callVars
<1>22. ASSUME UNCHANGED vars PROVE TokenOfName'
    BY <1>22, ConstantsAssumption DEF vars, callVars
<1> QED
    BY <1>1, <1>2, <1>3, <1>4, <1>5, <1>6, <1>7, <1>8, <1>9, <1>10, <1>11,
       <1>12, <1>13, <1>14, <1>15, <1>16, <1>17, <1>18, <1>19, <1>20, <1>21, <1>22 DEF Next, CallStep, OperatorStep

\* Entries come from calls that have made them.
LEMMA PastStep ==
    ASSUME TypeOK, EntriesPast, [Next]_vars
    PROVE  EntriesPast'
<1> USE DEF TypeOK, EntriesPast, Peer, Running, Named
<1>1. ASSUME NEW c \in Calls, RegisterClassify(c) PROVE EntriesPast'
    <2>1. pc[c] = "idle" /\ pc' = [pc EXCEPT ![c] = "resolved"]
        BY <1>1 DEF RegisterClassify, Begin
    <2>2. \A d, e \in Calls : d \in seen'[e] => d \in seen[e] \/ \E p \in peers : p.reg = d
        BY <1>1 DEF RegisterClassify, Begin, Named
    <2> QED
        BY <1>1, <2>1, <2>2, ConstantsAssumption DEF RegisterClassify, Tokens
<1>2. ASSUME NEW c \in Calls, Resolve(c) PROVE EntriesPast'
    <2>1. pc[c] = "idle" /\ pc' = [pc EXCEPT ![c] = "resolved"]
        BY <1>2 DEF Resolve, Begin
    <2>2. \A d, e \in Calls : d \in seen'[e] => d \in seen[e] \/ \E p \in peers : p.reg = d
        BY <1>2 DEF Resolve, Begin, Named
    <2> QED
        BY <1>2, <2>1, <2>2, ConstantsAssumption DEF Resolve, Tokens
<1>3. ASSUME NEW c \in Calls, Unauthorized(c) PROVE EntriesPast'
    BY <1>3, ConstantsAssumption DEF Unauthorized, Proceed
<1>4. ASSUME NEW c \in Calls, Abandon(c) PROVE EntriesPast'
    BY <1>4, ConstantsAssumption DEF Abandon, Proceed, Running
<1>5. ASSUME NEW c \in Calls, RegisterConflict(c) PROVE EntriesPast'
    BY <1>5, ConstantsAssumption DEF RegisterConflict, At, Proceed
<1>6. ASSUME NEW c \in Calls, RegisterExisting(c) PROVE EntriesPast'
    <2>1. PICK p \in peers : peers' = Replaced(p, Refreshed(p, c, c, p.state))
        BY <1>6 DEF RegisterExisting, Named
    <2>2. c # None
        BY ConstantsAssumption DEF Tokens
    <2>3. \A d \in Calls : pc[d] \notin {"idle", "resolved"} => pc'[d] \notin {"idle", "resolved"}
        BY <1>6 DEF RegisterExisting, Proceed
    <2>4. \A q \in peers' : q.reg # None => q.token # None /\ \E o \in peers : o.reg = q.reg
        BY <2>1, <2>2 DEF Replaced, Refreshed
    <2> QED
        BY <1>6, <2>3, <2>4 DEF RegisterExisting, Proceed
<1>7. ASSUME NEW c \in Calls, RegisterNew(c) PROVE EntriesPast'
    BY <1>7, ConstantsAssumption DEF RegisterNew, At, Proceed, Named, NewAgent
<1>8. ASSUME NEW c \in Calls, RegisterRead(c) PROVE EntriesPast'
    BY <1>8, ConstantsAssumption DEF RegisterRead, Proceed, Named
<1>9. ASSUME NEW c \in Calls, PatchRefused(c) PROVE EntriesPast'
    BY <1>9, ConstantsAssumption DEF PatchRefused, At, Proceed
<1>10. ASSUME NEW c \in Calls, PatchApply(c) PROVE EntriesPast'
    BY <1>10, ConstantsAssumption DEF PatchApply, At, Proceed, Named, Replaced, Refreshed, MayManage
<1>11. ASSUME NEW c \in Calls, Deregister(c) PROVE EntriesPast'
    BY <1>11, ConstantsAssumption DEF Deregister, At, Proceed, Removable
<1>12. ASSUME NEW c \in Calls, ChannelRefused(c) PROVE EntriesPast'
    BY <1>12, ConstantsAssumption DEF ChannelRefused, At, Proceed
<1>13. ASSUME NEW c \in Calls, ChannelCheck(c) PROVE EntriesPast'
    BY <1>13, ConstantsAssumption DEF ChannelCheck, At, Proceed, Named, MayManage
<1>14. ASSUME NEW c \in Calls, ChannelBind(c) PROVE EntriesPast'
    BY <1>14, ConstantsAssumption DEF ChannelBind, Proceed
<1>15. ASSUME NEW c \in Calls, ChannelEnd(c) PROVE EntriesPast'
    BY <1>15, ConstantsAssumption DEF ChannelEnd, Proceed
<1>16. ASSUME NEW n \in Names, NEW s \in {"Accepted", "Revoked"}, SetState(n, s) PROVE EntriesPast'
    BY <1>16, ConstantsAssumption DEF SetState, WithState, Refreshed, callVars
<1>17. ASSUME NEW n \in Names, Reject(n) PROVE EntriesPast'
    BY <1>17, ConstantsAssumption DEF Reject, callVars
<1>18. ASSUME NEW n \in Names, Delete(n) PROVE EntriesPast'
    BY <1>18, ConstantsAssumption DEF Delete, callVars
<1>19. ASSUME NEW n \in Names, DeleteHuman(n) PROVE EntriesPast'
    BY <1>19, ConstantsAssumption DEF DeleteHuman, callVars
<1>20. ASSUME NEW n \in Names, NEW c \in Calls, CreateHuman(c, n) PROVE EntriesPast'
    BY <1>20, ConstantsAssumption DEF CreateHuman, NewHuman, Named
<1>21. ASSUME RegenerateBootstrap PROVE EntriesPast'
    BY <1>21, ConstantsAssumption DEF RegenerateBootstrap, callVars
<1>22. ASSUME UNCHANGED vars PROVE EntriesPast'
    BY <1>22, ConstantsAssumption DEF vars, callVars
<1> QED
    BY <1>1, <1>2, <1>3, <1>4, <1>5, <1>6, <1>7, <1>8, <1>9, <1>10, <1>11,
       <1>12, <1>13, <1>14, <1>15, <1>16, <1>17, <1>18, <1>19, <1>20, <1>21, <1>22 DEF Next, CallStep, OperatorStep

\* While an entry stands, its token stays the one a call was resolved by.
LEMMA SeenStep ==
    ASSUME TypeOK, NamesUnique, IdleUnused, ResolvedRight, EntriesPast, SeenRight, [Next]_vars
    PROVE  SeenRight'
<1> USE DEF TypeOK, NamesUnique, IdleUnused, ResolvedRight, EntriesPast, SeenRight, Peer, Named, Running, Request, NoRequest, Tokens, Shared
<1>1. ASSUME NEW c \in Calls, RegisterClassify(c) PROVE SeenRight'
    BY <1>1, ConstantsAssumption DEF RegisterClassify, Begin
<1>2. ASSUME NEW c \in Calls, Resolve(c) PROVE SeenRight'
    BY <1>2, ConstantsAssumption DEF Resolve, Begin, ResolvesTo
<1>3. ASSUME NEW c \in Calls, Unauthorized(c) PROVE SeenRight'
    BY <1>3, ConstantsAssumption DEF Unauthorized, Proceed
<1>4. ASSUME NEW c \in Calls, Abandon(c) PROVE SeenRight'
    BY <1>4, ConstantsAssumption DEF Abandon, Proceed, Running
<1>5. ASSUME NEW c \in Calls, RegisterConflict(c) PROVE SeenRight'
    BY <1>5, ConstantsAssumption DEF RegisterConflict, At, Proceed
<1>6. ASSUME NEW c \in Calls, RegisterExisting(c) PROVE SeenRight'
    BY <1>6, ConstantsAssumption DEF RegisterExisting, At, Proceed, Named, Replaced, Refreshed,
       MayManage
<1>7. ASSUME NEW c \in Calls, RegisterNew(c) PROVE SeenRight'
    BY <1>7, ConstantsAssumption DEF RegisterNew, At, Proceed, Named, NewAgent
<1>8. ASSUME NEW c \in Calls, RegisterRead(c) PROVE SeenRight'
    BY <1>8, ConstantsAssumption DEF RegisterRead, Proceed, Named
<1>9. ASSUME NEW c \in Calls, PatchRefused(c) PROVE SeenRight'
    BY <1>9, ConstantsAssumption DEF PatchRefused, At, Proceed
<1>10. ASSUME NEW c \in Calls, PatchApply(c) PROVE SeenRight'
    BY <1>10, ConstantsAssumption DEF PatchApply, At, Proceed, Named, Replaced, Refreshed, MayManage
<1>11. ASSUME NEW c \in Calls, Deregister(c) PROVE SeenRight'
    BY <1>11, ConstantsAssumption DEF Deregister, At, Proceed, Removable
<1>12. ASSUME NEW c \in Calls, ChannelRefused(c) PROVE SeenRight'
    BY <1>12, ConstantsAssumption DEF ChannelRefused, At, Proceed
<1>13. ASSUME NEW c \in Calls, ChannelCheck(c) PROVE SeenRight'
    BY <1>13, ConstantsAssumption DEF ChannelCheck, At, Proceed, Named, MayManage
<1>14. ASSUME NEW c \in Calls, ChannelBind(c) PROVE SeenRight'
    BY <1>14, ConstantsAssumption DEF ChannelBind, Proceed
<1>15. ASSUME NEW c \in Calls, ChannelEnd(c) PROVE SeenRight'
    BY <1>15, ConstantsAssumption DEF ChannelEnd, Proceed
<1>16. ASSUME NEW n \in Names, NEW s \in {"Accepted", "Revoked"}, SetState(n, s) PROVE SeenRight'
    BY <1>16, ConstantsAssumption DEF SetState, WithState, Refreshed, callVars
<1>17. ASSUME NEW n \in Names, Reject(n) PROVE SeenRight'
    BY <1>17, ConstantsAssumption DEF Reject, callVars
<1>18. ASSUME NEW n \in Names, Delete(n) PROVE SeenRight'
    BY <1>18, ConstantsAssumption DEF Delete, callVars
<1>19. ASSUME NEW n \in Names, DeleteHuman(n) PROVE SeenRight'
    BY <1>19, ConstantsAssumption DEF DeleteHuman, callVars
<1>20. ASSUME NEW n \in Names, NEW c \in Calls, CreateHuman(c, n) PROVE SeenRight'
    BY <1>20, ConstantsAssumption DEF CreateHuman, NewHuman, Named
<1>21. ASSUME RegenerateBootstrap PROVE SeenRight'
    BY <1>21, ConstantsAssumption DEF RegenerateBootstrap, callVars
<1>22. ASSUME UNCHANGED vars PROVE SeenRight'
    BY <1>22, ConstantsAssumption DEF vars, callVars
<1> QED
    BY <1>1, <1>2, <1>3, <1>4, <1>5, <1>6, <1>7, <1>8, <1>9, <1>10, <1>11,
       <1>12, <1>13, <1>14, <1>15, <1>16, <1>17, <1>18, <1>19, <1>20, <1>21, <1>22 DEF Next, CallStep, OperatorStep

\* Who may manage an entry has the right to.
LEMMA ManageRight ==
    ASSUME TypeOK, EntriesPast, SeenRight, ResolvedRight,
           NEW c \in Calls, pc[c] \in Running,
           NEW p \in Named(req[c].name), MayManage(c, p)
    PROVE  HasRight(c, p)
<1>1. CASE who[c] = p.name
    BY <1>1 DEF SeenRight, HasRight
<1>2. CASE who[c] \in Shared /\ p.token = None /\ p.fp = req[c].token
    BY <1>2 DEF EntriesPast, HasRight, Named
<1> QED
    BY <1>1, <1>2 DEF MayManage

\* What was checked before a channel is bound stays right.
LEMMA CheckedStep ==
    ASSUME TypeOK, NamesUnique, IdleUnused, ResolvedRight, EntriesPast, SeenRight, CheckedRight, [Next]_vars
    PROVE  CheckedRight'
<1> USE DEF TypeOK, NamesUnique, IdleUnused, ResolvedRight, EntriesPast, CheckedRight, HasRight, Peer, Named, Running, Request, NoRequest, Tokens, Shared
<1>1. ASSUME NEW c \in Calls, RegisterClassify(c) PROVE CheckedRight'
    BY <1>1, ConstantsAssumption DEF RegisterClassify, Begin
<1>2. ASSUME NEW c \in Calls, Resolve(c) PROVE CheckedRight'
    BY <1>2, ConstantsAssumption DEF Resolve, Begin, ResolvesTo
<1>3. ASSUME NEW c \in Calls, Unauthorized(c) PROVE CheckedRight'
    BY <1>3, ConstantsAssumption DEF Unauthorized, Proceed
<1>4. ASSUME NEW c \in Calls, Abandon(c) PROVE CheckedRight'
    BY <1>4, ConstantsAssumption DEF Abandon, Proceed, Running
<1>5. ASSUME NEW c \in Calls, RegisterConflict(c) PROVE CheckedRight'
    BY <1>5, ConstantsAssumption DEF RegisterConflict, At, Proceed
<1>6. ASSUME NEW c \in Calls, RegisterExisting(c) PROVE CheckedRight'
    BY <1>6, ConstantsAssumption DEF RegisterExisting, At, Proceed, Named, Replaced, Refreshed,
       MayManage
<1>7. ASSUME NEW c \in Calls, RegisterNew(c) PROVE CheckedRight'
    BY <1>7, ConstantsAssumption DEF RegisterNew, At, Proceed, Named, NewAgent
<1>8. ASSUME NEW c \in Calls, RegisterRead(c) PROVE CheckedRight'
    BY <1>8, ConstantsAssumption DEF RegisterRead, Proceed, Named
<1>9. ASSUME NEW c \in Calls, PatchRefused(c) PROVE CheckedRight'
    BY <1>9, ConstantsAssumption DEF PatchRefused, At, Proceed
<1>10. ASSUME NEW c \in Calls, PatchApply(c) PROVE CheckedRight'
    BY <1>10, ConstantsAssumption DEF PatchApply, At, Proceed, Named, Replaced, Refreshed, MayManage
<1>11. ASSUME NEW c \in Calls, Deregister(c) PROVE CheckedRight'
    BY <1>11, ConstantsAssumption DEF Deregister, At, Proceed, Removable
<1>12. ASSUME NEW c \in Calls, ChannelRefused(c) PROVE CheckedRight'
    BY <1>12, ConstantsAssumption DEF ChannelRefused, At, Proceed
<1>13. ASSUME NEW c \in Calls, ChannelCheck(c) PROVE CheckedRight'
    <2>1. \A p \in Named(req[c].name) : HasRight(c, p)
        BY <1>13, ManageRight DEF ChannelCheck, At, NamesUnique
    <2> QED
        BY <1>13, <2>1 DEF ChannelCheck, At, Proceed
<1>14. ASSUME NEW c \in Calls, ChannelBind(c) PROVE CheckedRight'
    BY <1>14, ConstantsAssumption DEF ChannelBind, Proceed
<1>15. ASSUME NEW c \in Calls, ChannelEnd(c) PROVE CheckedRight'
    BY <1>15, ConstantsAssumption DEF ChannelEnd, Proceed
<1>16. ASSUME NEW n \in Names, NEW s \in {"Accepted", "Revoked"}, SetState(n, s) PROVE CheckedRight'
    BY <1>16, ConstantsAssumption DEF SetState, WithState, Refreshed, callVars
<1>17. ASSUME NEW n \in Names, Reject(n) PROVE CheckedRight'
    BY <1>17, ConstantsAssumption DEF Reject, callVars
<1>18. ASSUME NEW n \in Names, Delete(n) PROVE CheckedRight'
    BY <1>18, ConstantsAssumption DEF Delete, callVars
<1>19. ASSUME NEW n \in Names, DeleteHuman(n) PROVE CheckedRight'
    BY <1>19, ConstantsAssumption DEF DeleteHuman, callVars
<1>20. ASSUME NEW n \in Names, NEW c \in Calls, CreateHuman(c, n) PROVE CheckedRight'
    BY <1>20, ConstantsAssumption DEF CreateHuman, NewHuman, Named
<1>21. ASSUME RegenerateBootstrap PROVE CheckedRight'
    BY <1>21, ConstantsAssumption DEF RegenerateBootstrap, callVars
<1>22. ASSUME UNCHANGED vars PROVE CheckedRight'
    BY <1>22, ConstantsAssumption DEF vars, callVars
<1> QED
    BY <1>1, <1>2, <1>3, <1>4, <1>5, <1>6, <1>7, <1>8, <1>9, <1>10, <1>11,
       <1>12, <1>13, <1>14, <1>15, <1>16, <1>17, <1>18, <1>19, <1>20, <1>21, <1>22 DEF Next, CallStep, OperatorStep

\* A minted token reaches the call that minted it.
LEMMA ToldStep ==
    ASSUME TypeOK, NamesUnique, TokenOfName, IdleUnused, MinterIsTold, [Next]_vars
    PROVE  MinterIsTold'
<1> USE DEF TypeOK, NamesUnique, TokenOfName, IdleUnused, MinterIsTold, Peer, Running
<1>1. ASSUME NEW c \in Calls, RegisterClassify(c) PROVE MinterIsTold'
    BY <1>1, ConstantsAssumption DEF RegisterClassify, Begin
<1>2. ASSUME NEW c \in Calls, Resolve(c) PROVE MinterIsTold'
    BY <1>2, ConstantsAssumption DEF Resolve, Begin, ResolvesTo
<1>3. ASSUME NEW c \in Calls, Unauthorized(c) PROVE MinterIsTold'
    BY <1>3, ConstantsAssumption DEF Unauthorized, Proceed
<1>4. ASSUME NEW c \in Calls, Abandon(c) PROVE MinterIsTold'
    BY <1>4, ConstantsAssumption DEF Abandon, Proceed, Running
<1>5. ASSUME NEW c \in Calls, RegisterConflict(c) PROVE MinterIsTold'
    BY <1>5, ConstantsAssumption DEF RegisterConflict, At, Proceed
<1>6. ASSUME NEW c \in Calls, RegisterExisting(c) PROVE MinterIsTold'
    BY <1>6, ConstantsAssumption DEF RegisterExisting, At, Proceed, Named, Replaced, Refreshed,
       MayManage
<1>7. ASSUME NEW c \in Calls, RegisterNew(c) PROVE MinterIsTold'
    BY <1>7, ConstantsAssumption DEF RegisterNew, At, Proceed, Named, NewAgent
<1>8. ASSUME NEW c \in Calls, RegisterRead(c) PROVE MinterIsTold'
    BY <1>8, ConstantsAssumption DEF RegisterRead, Proceed, Named
<1>9. ASSUME NEW c \in Calls, PatchRefused(c) PROVE MinterIsTold'
    BY <1>9, ConstantsAssumption DEF PatchRefused, At, Proceed
<1>10. ASSUME NEW c \in Calls, PatchApply(c) PROVE MinterIsTold'
    BY <1>10, ConstantsAssumption DEF PatchApply, At, Proceed, Named, Replaced, Refreshed, MayManage
<1>11. ASSUME NEW c \in Calls, Deregister(c) PROVE MinterIsTold'
    BY <1>11, ConstantsAssumption DEF Deregister, At, Proceed, Removable
<1>12. ASSUME NEW c \in Calls, ChannelRefused(c) PROVE MinterIsTold'
    BY <1>12, ConstantsAssumption DEF ChannelRefused, At, Proceed
<1>13. ASSUME NEW c \in Calls, ChannelCheck(c) PROVE MinterIsTold'
    BY <1>13, ConstantsAssumption DEF ChannelCheck, At, Proceed, Named, MayManage
<1>14. ASSUME NEW c \in Calls, ChannelBind(c) PROVE MinterIsTold'
    BY <1>14, ConstantsAssumption DEF ChannelBind, Proceed
<1>15. ASSUME NEW c \in Calls, ChannelEnd(c) PROVE MinterIsTold'
    BY <1>15, ConstantsAssumption DEF ChannelEnd, Proceed
<1>16. ASSUME NEW n \in Names, NEW s \in {"Accepted", "Revoked"}, SetState(n, s) PROVE MinterIsTold'
    BY <1>16, ConstantsAssumption DEF SetState, WithState, Refreshed, callVars
<1>17. ASSUME NEW n \in Names, Reject(n) PROVE MinterIsTold'
    BY <1>17, ConstantsAssumption DEF Reject, callVars
<1>18. ASSUME NEW n \in Names, Delete(n) PROVE MinterIsTold'
    BY <1>18, ConstantsAssumption DEF Delete, callVars
<1>19. ASSUME NEW n \in Names, DeleteHuman(n) PROVE MinterIsTold'
    BY <1>19, ConstantsAssumption DEF DeleteHuman, callVars
<1>20. ASSUME NEW n \in Names, NEW c \in Calls, CreateHuman(c, n) PROVE MinterIsTold'
    BY <1>20, ConstantsAssumption DEF CreateHuman, NewHuman, Named
<1>21. ASSUME RegenerateBootstrap PROVE MinterIsTold'
    BY <1>21, ConstantsAssumption DEF RegenerateBootstrap, callVars
<1>22. ASSUME UNCHANGED vars PROVE MinterIsTold'
    BY <1>22 DEF vars, callVars
<1> QED
    BY <1>1, <1>2, <1>3, <1>4, <1>5, <1>6, <1>7, <1>8, <1>9, <1>10, <1>11,
       <1>12, <1>13, <1>14, <1>15, <1>16, <1>17, <1>18, <1>19, <1>20, <1>21, <1>22 DEF Next, CallStep, OperatorStep

LEMMA InitInv == Init => Inv
<1> SUFFICES ASSUME Init PROVE Inv
    OBVIOUS
<1> USE DEF Init, Legacy
<1>1. TypeOK
    BY ConstantsAssumption DEF TypeOK, Shared, Tokens, NoRequest
<1>2. NamesUnique /\ MinterIsTold
    BY DEF NamesUnique, MinterIsTold
<1>3. TokenOfName /\ EntriesPast /\ SeenRight /\ CheckedRight
    BY DEF TokenOfName, EntriesPast, SeenRight, CheckedRight, Named
<1>4. IdleUnused /\ ResolvedRight
    BY ConstantsAssumption DEF IdleUnused, ResolvedRight, Running, NoRequest, Shared, Tokens
<1> QED
    BY <1>1, <1>2, <1>3, <1>4 DEF Inv

LEMMA StepInv == Inv /\ [Next]_vars => Inv'
    BY TypeStep, UniqueStep, IdleStep, ResolvedStep, TokenStep, PastStep, SeenStep, CheckedStep,
       ToldStep DEF Inv

\* The inductive invariant of the registry: every interleaving of registrations,
\* updates, removals, channels and operator actions keeps it.
THEOREM Invariant == Spec => []Inv
<1>1. Inv /\ [Next]_vars => Inv'
    BY StepInv
<1> QED
    BY InitInv, <1>1, PTL DEF Spec

\* The values of the variables are those of the type invariant.
THEOREM TypeCorrect == Spec => []TypeOK
<1>1. Inv => TypeOK
    BY DEF Inv
<1> QED
    BY <1>1, Invariant, PTL

\* A name never has two entries.
THEOREM NamesAreUnique == Spec => []NamesUnique
<1>1. Inv => NamesUnique
    BY DEF Inv
<1> QED
    BY <1>1, Invariant, PTL

\* The call that minted an entry's token is told it.
THEOREM MintersAreTold == Spec => []MinterIsTold
<1>1. Inv => MinterIsTold
    BY DEF Inv
<1> QED
    BY <1>1, Invariant, PTL

\* A call with a shared token leaves every entry that has a caller token alone.
LEMMA SharedStep ==
    ASSUME Inv, [Next]_vars
    PROVE  SharedLeaves
<1> USE DEF SharedLeaves, Inv, TypeOK, Peer, Shared, Tokens
<1>1. ASSUME NEW c \in Calls, RegisterClassify(c) PROVE SharedLeaves
    BY <1>1, ConstantsAssumption DEF RegisterClassify, Begin
<1>2. ASSUME NEW c \in Calls, Resolve(c) PROVE SharedLeaves
    BY <1>2, ConstantsAssumption DEF Resolve, Begin, ResolvesTo
<1>3. ASSUME NEW c \in Calls, Unauthorized(c) PROVE SharedLeaves
    BY <1>3, ConstantsAssumption DEF Unauthorized, Proceed
<1>4. ASSUME NEW c \in Calls, Abandon(c) PROVE SharedLeaves
    BY <1>4, ConstantsAssumption DEF Abandon, Proceed, Running
<1>5. ASSUME NEW c \in Calls, RegisterConflict(c) PROVE SharedLeaves
    BY <1>5, ConstantsAssumption DEF RegisterConflict, At, Proceed
<1>6. ASSUME NEW c \in Calls, RegisterExisting(c) PROVE SharedLeaves
    BY <1>6, ConstantsAssumption DEF RegisterExisting, At, Proceed, Named, Replaced, Refreshed,
       MayManage
<1>7. ASSUME NEW c \in Calls, RegisterNew(c) PROVE SharedLeaves
    BY <1>7, ConstantsAssumption DEF RegisterNew, At, Proceed, Named, NewAgent
<1>8. ASSUME NEW c \in Calls, RegisterRead(c) PROVE SharedLeaves
    BY <1>8, ConstantsAssumption DEF RegisterRead, Proceed, Named
<1>9. ASSUME NEW c \in Calls, PatchRefused(c) PROVE SharedLeaves
    BY <1>9, ConstantsAssumption DEF PatchRefused, At, Proceed
<1>10. ASSUME NEW c \in Calls, PatchApply(c) PROVE SharedLeaves
    BY <1>10, ConstantsAssumption DEF PatchApply, At, Proceed, Named, Replaced, Refreshed, MayManage
<1>11. ASSUME NEW c \in Calls, Deregister(c) PROVE SharedLeaves
    <2>1. ASSUME who[c] \in Shared, NEW p \in Removable(c) PROVE p.token = None
        BY <2>1, ConstantsAssumption DEF Removable, Named, MayManage
    <2>2. \A d \in Calls : pc'[d] # pc[d] => d = c
        BY <1>11 DEF Deregister, Proceed
    <2> QED
        BY <1>11, <2>1, <2>2 DEF Deregister
<1>12. ASSUME NEW c \in Calls, ChannelRefused(c) PROVE SharedLeaves
    BY <1>12, ConstantsAssumption DEF ChannelRefused, At, Proceed
<1>13. ASSUME NEW c \in Calls, ChannelCheck(c) PROVE SharedLeaves
    BY <1>13, ConstantsAssumption DEF ChannelCheck, At, Proceed, Named, MayManage
<1>14. ASSUME NEW c \in Calls, ChannelBind(c) PROVE SharedLeaves
    BY <1>14, ConstantsAssumption DEF ChannelBind, Proceed
<1>15. ASSUME NEW c \in Calls, ChannelEnd(c) PROVE SharedLeaves
    BY <1>15, ConstantsAssumption DEF ChannelEnd, Proceed
<1>16. ASSUME NEW n \in Names, NEW s \in {"Accepted", "Revoked"}, SetState(n, s) PROVE SharedLeaves
    BY <1>16, ConstantsAssumption DEF SetState, WithState, Refreshed, callVars
<1>17. ASSUME NEW n \in Names, Reject(n) PROVE SharedLeaves
    BY <1>17, ConstantsAssumption DEF Reject, callVars
<1>18. ASSUME NEW n \in Names, Delete(n) PROVE SharedLeaves
    BY <1>18, ConstantsAssumption DEF Delete, callVars
<1>19. ASSUME NEW n \in Names, DeleteHuman(n) PROVE SharedLeaves
    BY <1>19, ConstantsAssumption DEF DeleteHuman, callVars
<1>20. ASSUME NEW n \in Names, NEW c \in Calls, CreateHuman(c, n) PROVE SharedLeaves
    BY <1>20, ConstantsAssumption DEF CreateHuman, NewHuman, Named
<1>21. ASSUME RegenerateBootstrap PROVE SharedLeaves
    BY <1>21, ConstantsAssumption DEF RegenerateBootstrap, callVars
<1>22. ASSUME UNCHANGED vars PROVE SharedLeaves
    BY <1>22 DEF vars, callVars
<1> QED
    BY <1>1, <1>2, <1>3, <1>4, <1>5, <1>6, <1>7, <1>8, <1>9, <1>10, <1>11,
       <1>12, <1>13, <1>14, <1>15, <1>16, <1>17, <1>18, <1>19, <1>20, <1>21, <1>22 DEF Next, CallStep, OperatorStep

\* A call manages an entry by its right only.
LEMMA OwnersStep ==
    ASSUME Inv, [Next]_vars
    PROVE  OwnersManage
<1> USE DEF OwnersManage, Inv, TypeOK, Peer, Running
<1>1. ASSUME NEW c \in Calls, RegisterClassify(c) PROVE OwnersManage
    BY <1>1, ConstantsAssumption DEF RegisterClassify, Begin
<1>2. ASSUME NEW c \in Calls, Resolve(c) PROVE OwnersManage
    BY <1>2, ConstantsAssumption DEF Resolve, Begin, ResolvesTo
<1>3. ASSUME NEW c \in Calls, Unauthorized(c) PROVE OwnersManage
    BY <1>3, ConstantsAssumption DEF Unauthorized, Proceed
<1>4. ASSUME NEW c \in Calls, Abandon(c) PROVE OwnersManage
    BY <1>4, ConstantsAssumption DEF Abandon, Proceed, Running
<1>5. ASSUME NEW c \in Calls, RegisterConflict(c) PROVE OwnersManage
    BY <1>5, ConstantsAssumption DEF RegisterConflict, At, Proceed
<1>6. ASSUME NEW c \in Calls, RegisterExisting(c) PROVE OwnersManage
    <2>1. PICK p \in Named(req[c].name) : MayManage(c, p) /\ peers' = Replaced(p, Refreshed(p, c, c, p.state))
        BY <1>6 DEF RegisterExisting
    <2>2. HasRight(c, p)
        BY <1>6, <2>1, ManageRight DEF RegisterExisting, At
    <2> QED
        BY <1>6, <2>1, <2>2 DEF RegisterExisting, Proceed, Replaced
<1>7. ASSUME NEW c \in Calls, RegisterNew(c) PROVE OwnersManage
    BY <1>7, ConstantsAssumption DEF RegisterNew, At, Proceed, Named, NewAgent
<1>8. ASSUME NEW c \in Calls, RegisterRead(c) PROVE OwnersManage
    BY <1>8, ConstantsAssumption DEF RegisterRead, Proceed, Named
<1>9. ASSUME NEW c \in Calls, PatchRefused(c) PROVE OwnersManage
    BY <1>9, ConstantsAssumption DEF PatchRefused, At, Proceed
<1>10. ASSUME NEW c \in Calls, PatchApply(c) PROVE OwnersManage
    <2>1. PICK p \in Named(req[c].name) :
              MayManage(c, p) /\ peers' = Replaced(p, Refreshed(p, c, p.token, p.state))
        BY <1>10 DEF PatchApply
    <2>2. HasRight(c, p)
        BY <1>10, <2>1, ManageRight DEF PatchApply, At
    <2> QED
        BY <1>10, <2>1, <2>2 DEF PatchApply, Proceed, Replaced
<1>11. ASSUME NEW c \in Calls, Deregister(c) PROVE OwnersManage
    <2>1. \A p \in Removable(c) : HasRight(c, p)
        BY <1>11, ManageRight DEF Deregister, At, Removable
    <2> QED
        BY <1>11, <2>1 DEF Deregister, Proceed
<1>12. ASSUME NEW c \in Calls, ChannelRefused(c) PROVE OwnersManage
    BY <1>12, ConstantsAssumption DEF ChannelRefused, At, Proceed
<1>13. ASSUME NEW c \in Calls, ChannelCheck(c) PROVE OwnersManage
    BY <1>13, ConstantsAssumption DEF ChannelCheck, At, Proceed, Named, MayManage
<1>14. ASSUME NEW c \in Calls, ChannelBind(c) PROVE OwnersManage
    <2>1. \A p \in Named(req[c].name) : HasRight(c, p)
        BY <1>14 DEF ChannelBind, CheckedRight
    <2>2. \A n \in Names : channel'[n] # channel[n] => n = req[c].name
        BY <1>14 DEF ChannelBind
    <2> QED
        BY <1>14, <2>1, <2>2 DEF ChannelBind, Proceed
<1>15. ASSUME NEW c \in Calls, ChannelEnd(c) PROVE OwnersManage
    <2>1. c # None
        BY ConstantsAssumption DEF Tokens
    <2> QED
        BY <1>15, <2>1 DEF ChannelEnd, Proceed
<1>16. ASSUME NEW n \in Names, NEW s \in {"Accepted", "Revoked"}, SetState(n, s) PROVE OwnersManage
    BY <1>16, ConstantsAssumption DEF SetState, WithState, Refreshed, callVars
<1>17. ASSUME NEW n \in Names, Reject(n) PROVE OwnersManage
    BY <1>17, ConstantsAssumption DEF Reject, callVars
<1>18. ASSUME NEW n \in Names, Delete(n) PROVE OwnersManage
    BY <1>18, ConstantsAssumption DEF Delete, callVars
<1>19. ASSUME NEW n \in Names, DeleteHuman(n) PROVE OwnersManage
    BY <1>19, ConstantsAssumption DEF DeleteHuman, callVars
<1>20. ASSUME NEW n \in Names, NEW c \in Calls, CreateHuman(c, n) PROVE OwnersManage
    BY <1>20, ConstantsAssumption DEF CreateHuman, NewHuman, Named
<1>21. ASSUME RegenerateBootstrap PROVE OwnersManage
    BY <1>21, ConstantsAssumption DEF RegenerateBootstrap, callVars
<1>22. ASSUME UNCHANGED vars PROVE OwnersManage
    BY <1>22, ConstantsAssumption DEF vars, callVars
<1> QED
    BY <1>1, <1>2, <1>3, <1>4, <1>5, <1>6, <1>7, <1>8, <1>9, <1>10, <1>11,
       <1>12, <1>13, <1>14, <1>15, <1>16, <1>17, <1>18, <1>19, <1>20, <1>21, <1>22 DEF Next, CallStep, OperatorStep

\* No call changes an admission state or is born accepted without a right to it.
LEMMA AdmissionStep ==
    ASSUME Inv, [Next]_vars
    PROVE  AdmissionDecided
<1> USE DEF AdmissionDecided, SameEntry, Inv, TypeOK, ResolvedRight, Peer, Shared, Tokens
<1>1. ASSUME NEW c \in Calls, RegisterClassify(c) PROVE AdmissionDecided
    BY <1>1, ConstantsAssumption DEF RegisterClassify, Begin
<1>2. ASSUME NEW c \in Calls, Resolve(c) PROVE AdmissionDecided
    BY <1>2, ConstantsAssumption DEF Resolve, Begin, ResolvesTo
<1>3. ASSUME NEW c \in Calls, Unauthorized(c) PROVE AdmissionDecided
    BY <1>3, ConstantsAssumption DEF Unauthorized, Proceed
<1>4. ASSUME NEW c \in Calls, Abandon(c) PROVE AdmissionDecided
    BY <1>4, ConstantsAssumption DEF Abandon, Proceed, Running
<1>5. ASSUME NEW c \in Calls, RegisterConflict(c) PROVE AdmissionDecided
    BY <1>5, ConstantsAssumption DEF RegisterConflict, At, Proceed
<1>6. ASSUME NEW c \in Calls, RegisterExisting(c) PROVE AdmissionDecided
    BY <1>6, ConstantsAssumption DEF RegisterExisting, At, Proceed, Named, Replaced, Refreshed,
       MayManage
<1>7. ASSUME NEW c \in Calls, RegisterNew(c) PROVE AdmissionDecided
    BY <1>7, ConstantsAssumption DEF RegisterNew, At, Proceed, Named, NewAgent
<1>8. ASSUME NEW c \in Calls, RegisterRead(c) PROVE AdmissionDecided
    BY <1>8, ConstantsAssumption DEF RegisterRead, Proceed, Named
<1>9. ASSUME NEW c \in Calls, PatchRefused(c) PROVE AdmissionDecided
    BY <1>9, ConstantsAssumption DEF PatchRefused, At, Proceed
<1>10. ASSUME NEW c \in Calls, PatchApply(c) PROVE AdmissionDecided
    BY <1>10, ConstantsAssumption DEF PatchApply, At, Proceed, Named, Replaced, Refreshed, MayManage
<1>11. ASSUME NEW c \in Calls, Deregister(c) PROVE AdmissionDecided
    BY <1>11, ConstantsAssumption DEF Deregister, At, Proceed, Removable
<1>12. ASSUME NEW c \in Calls, ChannelRefused(c) PROVE AdmissionDecided
    BY <1>12, ConstantsAssumption DEF ChannelRefused, At, Proceed
<1>13. ASSUME NEW c \in Calls, ChannelCheck(c) PROVE AdmissionDecided
    BY <1>13, ConstantsAssumption DEF ChannelCheck, At, Proceed, Named, MayManage
<1>14. ASSUME NEW c \in Calls, ChannelBind(c) PROVE AdmissionDecided
    BY <1>14, ConstantsAssumption DEF ChannelBind, Proceed
<1>15. ASSUME NEW c \in Calls, ChannelEnd(c) PROVE AdmissionDecided
    BY <1>15, ConstantsAssumption DEF ChannelEnd, Proceed
<1>16. ASSUME NEW n \in Names, NEW s \in {"Accepted", "Revoked"}, SetState(n, s) PROVE AdmissionDecided
    BY <1>16, ConstantsAssumption DEF SetState, WithState, Refreshed, callVars
<1>17. ASSUME NEW n \in Names, Reject(n) PROVE AdmissionDecided
    BY <1>17, ConstantsAssumption DEF Reject, callVars
<1>18. ASSUME NEW n \in Names, Delete(n) PROVE AdmissionDecided
    BY <1>18, ConstantsAssumption DEF Delete, callVars
<1>19. ASSUME NEW n \in Names, DeleteHuman(n) PROVE AdmissionDecided
    BY <1>19, ConstantsAssumption DEF DeleteHuman, callVars
<1>20. ASSUME NEW n \in Names, NEW c \in Calls, CreateHuman(c, n) PROVE AdmissionDecided
    BY <1>20, ConstantsAssumption DEF CreateHuman, NewHuman, Named
<1>21. ASSUME RegenerateBootstrap PROVE AdmissionDecided
    BY <1>21, ConstantsAssumption DEF RegenerateBootstrap, callVars
<1>22. ASSUME UNCHANGED vars PROVE AdmissionDecided
    BY <1>22 DEF vars, callVars
<1> QED
    BY <1>1, <1>2, <1>3, <1>4, <1>5, <1>6, <1>7, <1>8, <1>9, <1>10, <1>11,
       <1>12, <1>13, <1>14, <1>15, <1>16, <1>17, <1>18, <1>19, <1>20, <1>21, <1>22 DEF Next, CallStep, OperatorStep

\* An entry with a caller token is out of reach of the shared tokens, even for a
\* call that was admitted before the token was minted.
THEOREM SharedTokensLeaveOwned == Spec => SharedLeavesOwned
<1>1. Inv /\ [Next]_vars => [SharedLeaves]_vars
    BY SharedStep
<1> QED
    BY <1>1, Invariant, PTL DEF Spec, SharedLeavesOwned, SharedLeaves

\* Although tokens are resolved before the locks they are used under, an entry is
\* updated, removed and given a channel by its own token, or by a token that was
\* resolved before the entry was made.
THEOREM OwnersAlone == Spec => OnlyOwnersManage
<1>1. Inv /\ [Next]_vars => [OwnersManage]_vars
    BY OwnersStep
<1> QED
    BY <1>1, Invariant, PTL DEF Spec, OnlyOwnersManage, OwnersManage

\* Admission states are the operator's.
THEOREM AdmissionsAreDecided == Spec => AdmissionIsDecided
<1>1. Inv /\ [Next]_vars => [AdmissionDecided]_vars
    BY AdmissionStep
<1> QED
    BY <1>1, Invariant, PTL DEF Spec, AdmissionIsDecided, AdmissionDecided
=============================================================================
