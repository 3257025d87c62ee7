----------------------------- MODULE TokenStore -----------------------------
(***************************************************************************)
(* The Redis token stores behind log-in, e-mail verification, password     *)
(* reset and e-mail change.  The four services have the same keys: one per *)
(* token, holding its user, and one per user, the pointer, holding the     *)
(* user's newest token.  Every operator below is one Redis command or one  *)
(* Lua script.  A token is random: a name of Tokens is used again once     *)
(* nothing refers to it any more.                                          *)
(***************************************************************************)
EXTENDS Naturals, FiniteSets

CONSTANTS
    Users,
    Emails,
    Tokens,     \* bound: tokens that exist, or are held, at one time
    Kinds,      \* the stores an instance looks at
    None

AllKinds == {"refresh", "verify", "reset", "change"}

ASSUME TokenAssumption ==
    /\ Kinds \subseteq AllKinds
    /\ None \notin Users \union Emails \union Tokens

\* What a token key holds.  "to" is the address the token is mailed to; only
\* a change token's key really has it.
Values == [kind : AllKinds, user : Users, to : Emails]

ASSUME NoneIsNoValue == None \notin Values

VARIABLES
    key,        \* the key of each token: its value, or None
    pointer     \* the newest token of each kind and user, or None

storeVars == <<key, pointer>>

StoreTypeOK ==
    /\ key \in [Tokens -> Values \union {None}]
    /\ pointer \in [AllKinds -> [Users -> Tokens \union {None}]]

InitStore ==
    /\ key = [t \in Tokens |-> None]
    /\ pointer = [k \in AllKinds |-> [u \in Users |-> None]]

LiveTokens == {t \in Tokens : key[t] # None}
TokensOf(k, u) == {t \in LiveTokens : key[t].kind = k /\ key[t].user = u}
Unnamed(t) == t \notin LiveTokens /\ \A k \in Kinds, u \in Users : pointer[k][u] # t

-----------------------------------------------------------------------------
\* Mutant: the pointer is moved, but the old token is left to its TTL.
GenerateBeside(k, u, e, t) ==
    /\ key' = [key EXCEPT ![t] = [kind |-> k, user |-> u, to |-> e]]
    /\ pointer' = [pointer EXCEPT ![k][u] = t]

\* The script: delete the token the pointer names, store the new one in both
\* keys.
Generate(k, u, e, t) ==
    /\ key' = [s \in Tokens |->
                IF s = t THEN [kind |-> k, user |-> u, to |-> e]
                ELSE IF s = pointer[k][u] THEN None ELSE key[s]]
    /\ pointer' = [pointer EXCEPT ![k][u] = t]

\* generate_token of one service: no key, no pointer and no request (they hold
\* "held") knows the random token yet.  Stores outside Kinds leave no trace.
Issue(k, u, e, held) ==
    \/ /\ k \in Kinds
       /\ \E t \in Tokens \ held : Unnamed(t) /\ Generate(k, u, e, t)
    \/ k \notin Kinds /\ UNCHANGED storeVars

GenerateRefresh(u, e, held) == Issue("refresh", u, e, held)
GenerateVerify(u, e, held) == Issue("verify", u, e, held)
GenerateReset(u, e, held) == Issue("reset", u, e, held)
GenerateChange(u, e, held) == Issue("change", u, e, held)

\* GET of a token key, before the rotation that replaces it.
Verifies(k, t) == key[t] # None /\ key[t].kind = k

\* Mutant: the token is looked up, and deleted with the pointer only.
TakeKept(k, t) == Verifies(k, t) /\ UNCHANGED storeVars

\* GETDEL of a token key, the first half of consume_token.
Take(k, t) ==
    /\ Verifies(k, t)
    /\ key' = [key EXCEPT ![t] = None]
    /\ UNCHANGED pointer

\* DEL of the pointer, the second half, whichever token it names by now.
DropPointer(k, u) ==
    /\ pointer' = [pointer EXCEPT ![k][u] = None]
    /\ UNCHANGED key

\* GETDEL of the pointer: revoke and cancel_token start with it ...
TakePointer(k, u, t) ==
    /\ t = pointer[k][u]
    /\ DropPointer(k, u)

\* ... and go on with a DEL of the token it named.
DropToken(t) ==
    /\ key' = [s \in Tokens |-> IF s = t THEN None ELSE key[s]]
    /\ UNCHANGED pointer

\* The two keys of a token are set in one script with one TTL.
Expire(t) ==
    /\ key[t] # None
    /\ key' = [key EXCEPT ![t] = None]
    /\ pointer' = [k \in AllKinds |-> [u \in Users |->
                     IF pointer[k][u] = t THEN None ELSE pointer[k][u]]]
=============================================================================
