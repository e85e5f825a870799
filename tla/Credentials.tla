---------------------------- MODULE Credentials ----------------------------
(***************************************************************************)
(* quant/api/credentials: the exchange keys of one user.  A row is         *)
(* versioned by (API_CREDENTIAL_ID, API_CREDENTIAL_VID), a primary key, so *)
(* two writes of one id are either in order or one of them errs.  rotate   *)
(* and revoke read the row, active and owned, and then write in a second   *)
(* call; SP_INS_API_CREDENTIAL checks the owner again, not the activity.   *)
(***************************************************************************)
EXTENDS Naturals

CONSTANTS
    Cred,         \* credential ids
    Editor,       \* concurrent requests of the owner
    MaxKey,       \* bound on the keys entered
    NoCred        \* no row, no request

\* NoCred is none of the values it stands beside.
ASSUME NoCredAssumption ==
    NoCred \notin [key : Nat, active : BOOLEAN] \cup [c : Cred, op : {"rotate", "revoke"}]

VARIABLES
    row,          \* current row of each id: key (0 when cleared) and active
    editing,      \* a request between its read and its write
    nkeys,        \* keys entered so far
    keyOk,        \* the Fernet key of this process decrypts the rows
    revoked,      \* history: ids revoked and not created since
    overtaken     \* history: ids revoked while a rotation held them

credVars == <<row, editing, nkeys, keyOk, revoked, overtaken>>

CredInit ==
    /\ row = [c \in Cred |-> NoCred]
    /\ editing = [e \in Editor |-> NoCred]
    /\ nkeys = 0 /\ keyOk = TRUE
    /\ revoked = {} /\ overtaken = {}

\* A plausible bug: the read returns the current row, active or not.
get_credential_AnyCurrent(c) == IF row[c] = NoCred THEN NoCred ELSE row[c]

\* SP_GET_API_CREDENTIAL: the owner's current and active row.
get_credential(c) == IF row[c] = NoCred THEN NoCred ELSE IF row[c].active THEN row[c] ELSE NoCred

\* create_credential: the next id.
Create(c) ==
    /\ row[c] = NoCred /\ nkeys < MaxKey
    /\ nkeys' = nkeys + 1
    /\ row' = [row EXCEPT ![c] = [key |-> nkeys + 1, active |-> TRUE]]
    /\ UNCHANGED <<editing, keyOk, revoked, overtaken>>

\* rotate_credential and revoke_credential read first: 404 without a row.
EditRead(e, c, op) ==
    /\ editing[e] = NoCred /\ get_credential(c) # NoCred
    /\ editing' = [editing EXCEPT ![e] = [c |-> c, op |-> op]]
    /\ UNCHANGED <<row, nkeys, keyOk, revoked, overtaken>>

\* The write of a rotation: a new active version with the new keys, or an error.
Rotate(e) ==
    /\ editing[e] # NoCred /\ editing[e].op = "rotate"
    /\ \/ /\ nkeys < MaxKey /\ nkeys' = nkeys + 1
          /\ row' = [row EXCEPT ![editing[e].c] = [key |-> nkeys + 1, active |-> TRUE]]
       \/ UNCHANGED <<row, nkeys>>
    /\ editing' = [editing EXCEPT ![e] = NoCred]
    /\ UNCHANGED <<keyOk, revoked, overtaken>>

\* SP_UPD_API_CREDENTIAL_REVOKE: only of an active row; the keys are cleared.
Revoke(e) ==
    /\ editing[e] # NoCred /\ editing[e].op = "revoke"
    /\ LET c == editing[e].c
           holders == {u \in Editor \ {e} : editing[u] # NoCred /\ editing[u].c = c
                                              /\ editing[u].op = "rotate"}
       IN  \/ /\ row[c].active
              /\ row' = [row EXCEPT ![c] = [key |-> 0, active |-> FALSE]]
              /\ revoked' = revoked \cup {c}
              /\ overtaken' = IF holders = {} THEN overtaken ELSE overtaken \cup {c}
           \/ UNCHANGED <<row, revoked, overtaken>>
    /\ editing' = [editing EXCEPT ![e] = NoCred]
    /\ UNCHANGED <<nkeys, keyOk>>

\* A restart without EXCHANGE_SECRETS_KEY draws a new Fernet key: rows of
\* before no longer decrypt and are shown as ****.
RestartKeyless ==
    /\ keyOk' \in BOOLEAN /\ keyOk' # keyOk
    /\ editing' = [e \in Editor |-> NoCred]
    /\ UNCHANGED <<row, nkeys, revoked, overtaken>>

\* decrypt_credential, for the broker adapter.
decrypt_credential(c) ==
    IF get_credential(c) # NoCred /\ keyOk THEN get_credential(c).key ELSE 0

CredNext ==
    \/ RestartKeyless
    \/ \E c \in Cred : Create(c)
    \/ \E e \in Editor :
         \/ \E c \in Cred, op \in {"rotate", "revoke"} : EditRead(e, c, op)
         \/ Rotate(e) \/ Revoke(e)

(* No trade is placed with a credential its owner revoked: the adapter gets *)
(* no keys for it again, unless a rotation had read the row before the      *)
(* revocation and writes after it (rotate_credential checks no activity).   *)
RevokedNotServed == \A c \in revoked \ overtaken : decrypt_credential(c) = 0
=============================================================================
