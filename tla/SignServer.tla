------------------------------ MODULE SignServer ------------------------------
(***************************************************************************)
(* The Sign servers of the login window and what they may answer           *)
(* (mods/login/src/sign/mod.rs): any list of characters that the checks    *)
(* let through, whatever was asked before.  Login.tla asks.                *)
(***************************************************************************)
EXTENDS Naturals, FiniteSets

CONSTANTS
    Servers,    \* what the [sign] section may name; no two share an address
    Tcp,        \* the servers among them whose endpoint is tcp://
    Ids,        \* character ids; two servers may use the same
    Limit,      \* CHARACTER_LIMIT
    New,        \* CharacterSelection::New
    Absent      \* no server, no character, no form

ASSUME SignAssumption ==
    /\ Tcp \subseteq Servers
    /\ Limit \in Nat \ {0}
    /\ IsFiniteSet(Ids)    \* ids are u32
    /\ Absent \notin Servers \cup Ids
    /\ New \notin Ids

\* What sign/mod.rs validate_sign_in lets through: no id twice, at most Limit
\* characters.  `entrance` is whether the list of entrance servers has one.
SignInSuccess(s) ==
    {x \in [server : {s}, existing : SUBSET Ids, fresh : SUBSET Ids, entrance : BOOLEAN] :
        /\ x.existing \cap x.fresh = {}
        /\ Cardinality(x.existing \cup x.fresh) <= Limit}
CharacterIds(session) == session.existing \cup session.fresh
===============================================================================
