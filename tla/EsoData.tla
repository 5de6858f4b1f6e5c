------------------------------- MODULE EsoData -------------------------------
(***************************************************************************)
(* The data that the three kinds of Eso daemons share: permissions,        *)
(* credentials, the tables that hold them and the messages that carry      *)
(* them.  esoca is the certificate authority, the esods are the            *)
(* distribution servers and every end host runs an esol.                   *)
(***************************************************************************)
EXTENDS Naturals, Sequences, SequencesExt

CONSTANTS Ca,         \* the machine of esoca
          Locations,  \* the lines of locations_config: the esods, in order
          Hosts,      \* the end hosts
          Names,      \* the (set_name, entity) pairs that permissions are about
          Ops,        \* the operations a permission may allow
          CredIds,    \* the (set_name, version) pairs of credentials
          Kind,       \* Kind[c]: the type that credential c is created with
          Failing,    \* the machines whose MySQL may fail at any statement
          DataFits,   \* TRUE: RSA can do with all data what programs ask for
          NoOne       \* no process; the empty string where a name is expected

Esods   == {Locations[i] : i \in 1..Len(Locations)}
Servers == Esods \cup Hosts         \* the daemons that accept TCP connections
Procs   == {Ca} \cup Servers

ASSUME LocationsAssumption == Locations \in Seq(Esods)
ASSUME ProcsAssumption ==
    /\ Ca \notin Servers
    /\ Esods \cap Hosts = {}
    /\ NoOne \notin Procs \cup Names

CredKinds == {"userpass", "symmetric", "asymmetric"}
Services  == {"encrypt", "decrypt", "hmac", "sign", "verify"}
ASSUME OpsAssumption  == Ops \subseteq Services \cup {"retrieve"}
ASSUME KindAssumption == Kind \in [CredIds -> CredKinds]
ASSUME FailingAssumption == Failing \subseteq Procs
ASSUME DataAssumption == DataFits \in BOOLEAN

-----------------------------------------------------------------------------
(***************************************************************************)
(* Permissions.  (set_name, entity, loc) is the primary key.  The          *)
(* operations are the bits of an integer in the code, a set here.  A       *)
(* default-constructed Permission has empty names and no operations.       *)
(***************************************************************************)
Keys     == [name : Names, loc : Hosts]
EmptyKey == [name |-> NoOne, loc |-> NoOne]
AllKeys  == Keys \cup {EmptyKey}

Masks  == SUBSET Ops
NoRow  == <<>>
Row(m) == <<m>>
Rows   == {Row(m) : m \in Masks} \cup {NoRow}

EmptyTable == [k \in AllKeys |-> NoRow]

\* What a row allows.  A key without a row allows nothing.
Allows(row) == IF row = NoRow THEN {} ELSE row[1]

\* Mutants: an INSERT that overwrites, and an upsert that does not.
create_or_replace(t, k, m) == [t EXCEPT ![k] = Row(m)]
insert_if_absent(t, k, m) == [t EXCEPT ![k] = IF @ = NoRow THEN Row(m) ELSE @]

(***************************************************************************)
(* The statements of MySQL_Conn on a table of permissions: INSERT (fails,  *)
(* and changes nothing, when the key is there), UPDATE (changes nothing    *)
(* when it is not), INSERT ... ON DUPLICATE KEY UPDATE, and DELETE.        *)
(***************************************************************************)
create_permission(t, k, m) == [t EXCEPT ![k] = IF @ = NoRow THEN Row(m) ELSE @]
update_permission(t, k, m) == [t EXCEPT ![k] = IF @ = NoRow THEN @ ELSE Row(m)]
insert_permission(t, k, m) == [t EXCEPT ![k] = Row(m)]
delete_permission(t, k)    == [t EXCEPT ![k] = NoRow]

(***************************************************************************)
(* SELECT: the permission found, or the empty Permission.                  *)
(***************************************************************************)
EmptyPermission == [key |-> EmptyKey, op |-> {}]
get_permission(t, k) ==
    IF t[k] = NoRow THEN EmptyPermission ELSE [key |-> k, op |-> Allows(t[k])]

(***************************************************************************)
(* What may come of a statement.  No daemon looks at what perform_query    *)
(* returns.  get_result returns nullptr when the SELECT fails, and nobody  *)
(* looks at that either before mysql_fetch_row is given it: the library    *)
(* (external, MySQL's or MariaDB's) dies of it, and the process with it,   *)
(* or finds no row.                                                        *)
(***************************************************************************)
perform_query(p, before, after) == IF p \in Failing THEN {before, after} ELSE {after}
get_result(p, none, found) == IF p \in Failing THEN {none, found} ELSE {found}
DiesOfSelect(p) == p \in Failing

-----------------------------------------------------------------------------
(***************************************************************************)
(* Credentials.  The key material that esoca generates is a number, a new  *)
(* one each time.  create_credential is an INSERT.                         *)
(***************************************************************************)
NoKey == 0
NoCreds == [c \in CredIds |-> NoKey]
create_credential(t, c, mat) == [t EXCEPT ![c] = IF @ = NoKey THEN mat ELSE @]

-----------------------------------------------------------------------------
(***************************************************************************)
(* Messages: what one connection to a server carries.  ver numbers the     *)
(* values that esoca issues for a key; it is not in the code's messages    *)
(* and no daemon reads it.  A torn connection is one whose sender was      *)
(* killed before it had sent the whole message.                            *)
(***************************************************************************)
PermPushes ==
    [type : {"UPDATE_PERM", "DELETE_PERM"}, key : AllKeys, op : Masks, ver : Nat]
CredPushes == [type : {"NEW_CRED"}, cred : CredIds, mat : Nat \ {NoKey}]
Pushes == PermPushes \cup CredPushes

Queries ==
    [type : {"GET_PERM"}, key : AllKeys, from : Hosts \cup {NoOne}]
        \cup [type : {"GET_CRED"}, cred : CredIds, from : Hosts \cup {NoOne}]

Torn == [type |-> "TORN"]
Messages == Pushes \cup Queries \cup {Torn}

IsQuery(m) == m.type \in {"GET_PERM", "GET_CRED"}
=============================================================================
