------------------------------ MODULE Registry ------------------------------
(***************************************************************************)
(* The registry of peers: who may register, update and remove an entry,    *)
(* and who decides on its admission (register, update, deregister and      *)
(* may_manage of src/peers.rs, channel_open of src/channel.rs, the         *)
(* operator's actions in src/admin.rs, src/api.rs and src/chat.rs).        *)
(*                                                                         *)
(* A handler resolves its token under one lock, changes the registry under *)
(* a later one, and register reads the minted token under a third; other   *)
(* handlers run in between.  A call of Calls stands for one request and    *)
(* for the random caller token it may mint.  A token is its fingerprint.   *)
(* Card, upstream token and addresses of an entry go with its url.         *)
(***************************************************************************)
EXTENDS FiniteSets

CONSTANTS Names,       \* well-formed peer names
          Calls,       \* requests
          Gateway,     \* the gateway token
          Bootstraps,  \* the bootstrap tokens there may be, one after the other
          None         \* no token, no call, no caller

Shared == {Gateway} \cup Bootstraps
Tokens == Shared \cup Calls

ASSUME ConstantsAssumption ==
    /\ Names \cap Tokens = {}
    /\ Shared \cap Calls = {}
    /\ Gateway \notin Bootstraps
    /\ None \notin Names \cup Tokens

VARIABLES
    peers,      \* Inner.peers
    bootstrap,  \* Inner.bootstrap_token
    spent,      \* the bootstrap tokens there have been, the current one included
    pc,         \* a call's place in its handler, or how it ended
    req,        \* what a call asks for
    who,        \* what its token was resolved to: a shared token or a peer's name
    seen,       \* history: the entry that had the name when it was resolved
    told,       \* the caller token in the response of a register
    channel     \* Channels.peers: the call whose stream a name is bound to

callVars == <<pc, req, who, seen, told>>
vars == <<peers, bootstrap, spent, pc, req, who, seen, told, channel>>

Ops     == {"register", "patch", "deregister", "channel", "human"}
Running == {"resolved", "minted", "created", "checked"}   \* at an await
Ended   == {"200", "201", "401", "403", "404", "409", "open", "gone"}

Request == [op : Ops, token : Tokens, name : Names]
NoRequest == [op |-> "none", token |-> None, name |-> None]

\* reg is the call that made the entry, None if it is older than caller tokens;
\* url is the call that supplied the url, None if nobody did in this run.
Peer == [name : Names, kind : {"Agent", "Human"}, reg : Calls \cup {None},
         fp : Tokens, token : Calls \cup {None}, url : Calls \cup {None},
         state : {"Pending", "Accepted", "Revoked"}]

SameEntry(p, q) == p.name = q.name /\ p.reg = q.reg

\* An entry loaded from a state.json written before caller tokens existed: what
\* the bootstrap token registered was accepted at once.
Legacy(b) ==
    {p \in Peer : /\ p.kind = "Agent" /\ p.reg = None /\ p.token = None /\ p.url = None
                  /\ p.fp \in {Gateway, b}
                  /\ p.fp = b => p.state # "Pending"}

Named(n) == {p \in peers : p.name = n}

\* The same entry with another url, token and admission state.
Refreshed(p, u, t, s) ==
    [name |-> p.name, kind |-> p.kind, reg |-> p.reg, fp |-> p.fp,
     token |-> t, url |-> u, state |-> s]

Replaced(p, q) == (peers \ {p}) \cup {q}

\* resolve_caller: the shared tokens first, then the peers' caller tokens.
ResolvesTo(t, w) ==
    \/ t \in {Gateway, bootstrap} /\ w = t
    \/ t \in Calls /\ \E p \in peers : p.token = t /\ w = p.name

MayManage(c, p) ==
    \/ who[c] = p.name
    \/ who[c] \in Shared /\ p.token = None /\ p.fp = req[c].token

-----------------------------------------------------------------------------
Init ==
    /\ bootstrap \in Bootstraps
    /\ spent = {bootstrap}
    /\ peers \in SUBSET Legacy(bootstrap)
    /\ \A p, q \in peers : p.name = q.name => p = q
    /\ pc = [c \in Calls |-> "idle"]
    /\ req = [c \in Calls |-> NoRequest]
    /\ who = [c \in Calls |-> None]
    /\ seen = [c \in Calls |-> {}]
    /\ told = [c \in Calls |-> None]
    /\ channel = [n \in Names |-> None]

Begin(c, r, w) ==
    /\ pc[c] = "idle"
    /\ pc' = [pc EXCEPT ![c] = "resolved"]
    /\ req' = [req EXCEPT ![c] = r]
    /\ who' = [who EXCEPT ![c] = w]
    /\ seen' = [seen EXCEPT ![c] = {p.reg : p \in Named(r.name)}]

Proceed(c, place) ==
    /\ pc' = [pc EXCEPT ![c] = place]
    /\ UNCHANGED <<req, who, seen>>

At(c, op, place) == pc[c] = place /\ req[c].op = op

\* register up to classify_token: only a shared token registers.
RegisterClassify(c) ==
    /\ \E t \in {Gateway, bootstrap}, n \in Names :
        Begin(c, [op |-> "register", token |-> t, name |-> n], t)
    /\ UNCHANGED <<peers, bootstrap, spent, told, channel>>

\* The other three resolve the token before they take a lock on the entry.
Resolve(c) ==
    /\ \E op \in {"patch", "deregister", "channel"}, t \in Tokens, n \in Names :
        \E w \in Shared \cup Names :
            /\ ResolvesTo(t, w)
            /\ Begin(c, [op |-> op, token |-> t, name |-> n], w)
    /\ UNCHANGED <<peers, bootstrap, spent, told, channel>>

\* A token that is neither shared nor any peer's.
Unauthorized(c) ==
    /\ pc[c] = "idle"
    /\ \E t \in Tokens : \A w \in Shared \cup Names : ~ResolvesTo(t, w)
    /\ Proceed(c, "401")
    /\ UNCHANGED <<peers, bootstrap, spent, told, channel>>

\* The client leaves while its handler awaits a lock or a save.
Abandon(c) ==
    /\ pc[c] \in Running
    /\ Proceed(c, "gone")
    /\ UNCHANGED <<peers, bootstrap, spent, told, channel>>

-----------------------------------------------------------------------------
(* register, under the write lock, and the read of the minted token.       *)

RegisterConflict(c) ==
    /\ At(c, "register", "resolved")
    /\ \E p \in Named(req[c].name) : ~MayManage(c, p)
    /\ Proceed(c, "409")
    /\ UNCHANGED <<peers, bootstrap, spent, told, channel>>

\* Mutant of RegisterExisting: whoever registered the entry may mint a token again.
RegisterExistingAgain(c) ==
    /\ At(c, "register", "resolved")
    /\ \E p \in Named(req[c].name) :
        /\ p.fp = req[c].token
        /\ peers' = Replaced(p, Refreshed(p, c, c, p.state))
    /\ Proceed(c, "minted")
    /\ UNCHANGED <<bootstrap, spent, told, channel>>

\* Mutant of RegisterExisting: the admission state follows the token's class.
RegisterExistingAdmits(c) ==
    /\ At(c, "register", "resolved")
    /\ \E p \in Named(req[c].name) :
        /\ MayManage(c, p)
        /\ peers' = Replaced(p, Refreshed(p, c, c,
                          IF who[c] \in Bootstraps THEN "Accepted" ELSE "Pending"))
    /\ Proceed(c, "minted")
    /\ UNCHANGED <<bootstrap, spent, told, channel>>

\* Mutant of RegisterExisting: a token is minted but not disclosed.
RegisterExistingSilent(c) ==
    /\ At(c, "register", "resolved")
    /\ \E p \in Named(req[c].name) :
        /\ MayManage(c, p)
        /\ peers' = Replaced(p, Refreshed(p, c, c, p.state))
    /\ Proceed(c, "200")
    /\ UNCHANGED <<bootstrap, spent, told, channel>>

\* The same identity again: url refreshed, admission kept, a token minted.
\* may_manage leaves this to entries that have none yet.
RegisterExisting(c) ==
    /\ At(c, "register", "resolved")
    /\ \E p \in Named(req[c].name) :
        /\ MayManage(c, p)
        /\ peers' = Replaced(p, Refreshed(p, c, c, p.state))
    /\ Proceed(c, "minted")
    /\ UNCHANGED <<bootstrap, spent, told, channel>>

NewAgent(c) ==
    [name |-> req[c].name, kind |-> "Agent", reg |-> c, fp |-> req[c].token,
     token |-> c, url |-> c,
     state |-> IF who[c] \in Bootstraps THEN "Accepted" ELSE "Pending"]

RegisterNew(c) ==
    /\ At(c, "register", "resolved")
    /\ Named(req[c].name) = {}
    /\ peers' = peers \cup {NewAgent(c)}
    /\ Proceed(c, "created")
    /\ UNCHANGED <<bootstrap, spent, told, channel>>

\* inner2, after the save: the token of whatever entry has the name by now.
RegisterRead(c) ==
    /\ \/ pc[c] = "minted" /\ Proceed(c, "200")
       \/ pc[c] = "created" /\ Proceed(c, "201")
    /\ \/ \E p \in Named(req[c].name) : told' = [told EXCEPT ![c] = p.token]
       \/ Named(req[c].name) = {} /\ UNCHANGED told
    /\ UNCHANGED <<peers, bootstrap, spent, channel>>

-----------------------------------------------------------------------------
(* PATCH and DELETE /register, under the write lock.                       *)

PatchRefused(c) ==
    /\ At(c, "patch", "resolved")
    /\ \/ Named(req[c].name) = {} /\ Proceed(c, "404")
       \/ /\ \E p \in Named(req[c].name) : ~MayManage(c, p)
          /\ Proceed(c, "409")
       \/ /\ \E p \in Named(req[c].name) : MayManage(c, p) /\ p.state = "Revoked"
          /\ Proceed(c, "403")
    /\ UNCHANGED <<peers, bootstrap, spent, told, channel>>

\* Mutant of PatchApply: any caller that could be resolved may update.
PatchApplyAnyone(c) ==
    /\ At(c, "patch", "resolved")
    /\ \E p \in Named(req[c].name) :
        /\ p.state # "Revoked"
        /\ peers' = Replaced(p, Refreshed(p, c, p.token, p.state))
    /\ Proceed(c, "200")
    /\ UNCHANGED <<bootstrap, spent, told, channel>>

\* Mutant of PatchApply: a shared token manages whatever it registered.
PatchApplyShared(c) ==
    /\ At(c, "patch", "resolved")
    /\ \E p \in Named(req[c].name) :
        /\ who[c] = p.name \/ (who[c] \in Shared /\ p.fp = req[c].token)
        /\ p.state # "Revoked"
        /\ peers' = Replaced(p, Refreshed(p, c, p.token, p.state))
    /\ Proceed(c, "200")
    /\ UNCHANGED <<bootstrap, spent, told, channel>>

PatchApply(c) ==
    /\ At(c, "patch", "resolved")
    /\ \E p \in Named(req[c].name) :
        /\ MayManage(c, p)
        /\ p.state # "Revoked"
        /\ peers' = Replaced(p, Refreshed(p, c, p.token, p.state))
    /\ Proceed(c, "200")
    /\ UNCHANGED <<bootstrap, spent, told, channel>>

Removable(c) == {p \in Named(req[c].name) : MayManage(c, p)}

Deregister(c) ==
    /\ At(c, "deregister", "resolved")
    /\ peers' = peers \ Removable(c)
    /\ Proceed(c, IF Removable(c) = {} THEN "404" ELSE "200")
    /\ UNCHANGED <<bootstrap, spent, told, channel>>

-----------------------------------------------------------------------------
(* channel_open: the check under the read lock, then bind.                 *)

ChannelRefused(c) ==
    /\ At(c, "channel", "resolved")
    /\ \/ Named(req[c].name) = {} /\ Proceed(c, "404")
       \/ /\ \E p \in Named(req[c].name) : ~MayManage(c, p) \/ p.state # "Accepted"
          /\ Proceed(c, "403")
    /\ UNCHANGED <<peers, bootstrap, spent, told, channel>>

ChannelCheck(c) ==
    /\ At(c, "channel", "resolved")
    /\ \E p \in Named(req[c].name) : MayManage(c, p) /\ p.state = "Accepted"
    /\ Proceed(c, "checked")
    /\ UNCHANGED <<peers, bootstrap, spent, told, channel>>

ChannelBind(c) ==
    /\ pc[c] = "checked"
    /\ channel' = [channel EXCEPT ![req[c].name] = c]
    /\ Proceed(c, "open")
    /\ UNCHANGED <<peers, bootstrap, spent, told>>

\* A stream ends; Channels::drop takes whatever the name is bound to.
ChannelEnd(c) ==
    /\ pc[c] = "open"
    /\ channel' = [channel EXCEPT ![req[c].name] = None]
    /\ Proceed(c, "gone")
    /\ UNCHANGED <<peers, bootstrap, spent, told>>

-----------------------------------------------------------------------------
(* The operator's actions, each in one critical section.                   *)

WithState(n, s) ==
    {IF p.name = n THEN Refreshed(p, p.url, p.token, s) ELSE p : p \in peers}

SetState(n, s) ==
    /\ peers' = WithState(n, s)
    /\ UNCHANGED <<bootstrap, spent, callVars, channel>>

Reject(n) ==
    /\ peers' = {p \in peers : ~(p.name = n /\ p.state = "Pending")}
    /\ UNCHANGED <<bootstrap, spent, callVars, channel>>

Delete(n) ==
    /\ peers' = peers \ Named(n)
    /\ UNCHANGED <<bootstrap, spent, callVars, channel>>

DeleteHuman(n) ==
    /\ peers' = {p \in peers : ~(p.name = n /\ p.kind = "Human")}
    /\ UNCHANGED <<bootstrap, spent, callVars, channel>>

\* create_human_core: a human's fingerprint is that of its own token.
NewHuman(c, n) ==
    [name |-> n, kind |-> "Human", reg |-> c, fp |-> c, token |-> c, url |-> None,
     state |-> "Accepted"]

CreateHuman(c, n) ==
    /\ pc[c] = "idle"
    /\ Named(n) = {}
    /\ peers' = peers \cup {NewHuman(c, n)}
    /\ pc' = [pc EXCEPT ![c] = "201"]
    /\ req' = [req EXCEPT ![c] = [op |-> "human", token |-> c, name |-> n]]
    /\ told' = [told EXCEPT ![c] = c]
    /\ UNCHANGED <<bootstrap, spent, who, seen, channel>>

\* regenerate_bootstrap: a token is random, so never one from before.
RegenerateBootstrap ==
    /\ \E b \in Bootstraps \ spent : bootstrap' = b /\ spent' = spent \cup {b}
    /\ UNCHANGED <<peers, callVars, channel>>

-----------------------------------------------------------------------------
CallStep(c) ==
    \/ RegisterClassify(c) \/ Resolve(c) \/ Unauthorized(c) \/ Abandon(c)
    \/ RegisterConflict(c) \/ RegisterExisting(c) \/ RegisterNew(c) \/ RegisterRead(c)
    \/ PatchRefused(c) \/ PatchApply(c) \/ Deregister(c)
    \/ ChannelRefused(c) \/ ChannelCheck(c) \/ ChannelBind(c) \/ ChannelEnd(c)

OperatorStep ==
    \/ \E n \in Names :
        \/ SetState(n, "Accepted") \/ SetState(n, "Revoked")
        \/ Reject(n) \/ Delete(n) \/ DeleteHuman(n)
        \/ \E c \in Calls : CreateHuman(c, n)
    \/ RegenerateBootstrap

Next == OperatorStep \/ \E c \in Calls : CallStep(c)

Spec == Init /\ [][Next]_vars

-----------------------------------------------------------------------------
(* Properties.                                                             *)

\* The values of the variables.
TypeOK ==
    /\ peers \in SUBSET Peer
    /\ bootstrap \in Bootstraps
    /\ spent \in SUBSET Bootstraps
    /\ pc \in [Calls -> {"idle"} \cup Running \cup Ended]
    /\ req \in [Calls -> Request \cup {NoRequest}]
    /\ who \in [Calls -> Shared \cup Names \cup {None}]
    /\ seen \in [Calls -> SUBSET (Calls \cup {None})]
    /\ told \in [Calls -> Calls \cup {None}]
    /\ channel \in [Names -> Calls \cup {None}]

\* register and create_human look a name up and add it under one write lock,
\* however many of them run: a name has one entry.  Every other handler takes
\* the first entry it finds.
NamesUnique == \A p, q \in peers : p.name = q.name => p = q

\* The call c presented what manages the entry p: its own caller token, or the
\* shared token that registered it if it is older than caller tokens.  The name
\* alone is all that the code asks for of an entry which took the place of the
\* one the call's token was resolved against (peers.rs:399 against 390-396).
HasRight(c, p) ==
    \/ p.token = req[c].token
    \/ p.reg = None /\ p.fp = req[c].token
    \/ p.reg \notin seen[c]

\* Between the resolution of a token and its use under a later lock entries are
\* removed, made anew and given tokens.  Still a call only updates, removes or
\* binds a channel to an entry it has the right to manage.
OwnersManage ==
    \A c \in Calls : pc'[c] # pc[c] =>
        /\ \A p \in peers \ peers' : HasRight(c, p)
        /\ \A n \in Names : channel'[n] = c /\ channel[n] # c =>
               \A p \in Named(n) : HasRight(c, p)
OnlyOwnersManage == [][OwnersManage]_vars

\* The call that minted the token of an entry gets it, unless it is not answered:
\* no other register mints over it between the write and the read.
MinterIsTold ==
    \A p \in peers : p.token # None =>
        \/ told[p.token] = p.token
        \/ pc[p.token] \in {"minted", "created", "gone"}

\* Once an entry has a caller token, no call with a shared token changes or
\* removes it, not even one that was admitted before the token was minted.
SharedLeaves ==
    \A c \in Calls : pc'[c] # pc[c] /\ who[c] \in Shared =>
        \A p \in peers : p.token # None => p \in peers'
SharedLeavesOwned == [][SharedLeaves]_vars

\* No call changes the admission state of an entry, and an entry is born
\* accepted only to a human or with a bootstrap token.
AdmissionDecided ==
    pc' # pc =>
        \A q \in peers' :
            \/ \E p \in peers : SameEntry(p, q) /\ p.state = q.state
            \/ /\ \A p \in peers : ~SameEntry(p, q)
               /\ q.state = "Accepted" => q.kind = "Human" \/ q.fp \in Bootstraps
AdmissionIsDecided == [][AdmissionDecided]_vars

-----------------------------------------------------------------------------
(* The inductive invariant.                                                *)

\* Nothing refers to a call that has not begun.
IdleUnused ==
    /\ \A p \in peers : /\ p.url # None => pc[p.url] # "idle"
                        /\ p.token # None => pc[p.token] # "idle"
    /\ \A n \in Names : channel[n] # None => pc[channel[n]] # "idle"
    /\ \A c \in Calls : /\ req[c].token \in Calls => pc[req[c].token] # "idle"
                        /\ pc[c] = "idle" => req[c] = NoRequest

\* A token resolves to itself or to the name it was minted for, then and later.
ResolvedRight ==
    \A c \in Calls :
        /\ pc[c] \in Running => who[c] # None
        /\ who[c] # None =>
            \/ who[c] \in Shared /\ req[c].token = who[c]
            \/ req[c].token \in Calls /\ who[c] = req[req[c].token].name
        /\ req[c].op = "register" => req[c].token \in Shared

\* A token was minted by a call that asked for the name of its entry.
TokenOfName == \A p \in peers : p.token # None => req[p.token].name = p.name

\* An entry, and one that a call saw, was made by a call that is past making it;
\* it had a token from the start, unless it is older than caller tokens.
EntriesPast ==
    /\ \A p \in peers : p.reg # None => p.token # None /\ pc[p.reg] \notin {"idle", "resolved"}
    /\ \A c, d \in Calls : d \in seen[c] => pc[d] \notin {"idle", "resolved"}

\* While the entry stands that a caller token was resolved against, the token is its.
SeenRight ==
    \A c \in Calls : \A p \in Named(req[c].name) :
        who[c] = p.name /\ p.reg \in seen[c] => p.token = req[c].token

\* A channel about to be bound was checked, and the right stays.
CheckedRight ==
    \A c \in Calls : pc[c] = "checked" =>
        \A p \in Named(req[c].name) : HasRight(c, p)

Inv ==
    /\ TypeOK
    /\ NamesUnique
    /\ MinterIsTold
    /\ IdleUnused
    /\ ResolvedRight
    /\ TokenOfName
    /\ EntriesPast
    /\ SeenRight
    /\ CheckedRight

=============================================================================
