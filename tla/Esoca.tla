-------------------------------- MODULE Esoca --------------------------------
(***************************************************************************)
(* esoca, the certificate authority (central/esoca/ca_daemon.h).  It takes *)
(* the requests of the admin web application from a Unix domain socket,    *)
(* one at a time, changes its database, and sends the change to every      *)
(* distribution server in turn before it accepts the next request.         *)
(***************************************************************************)
EXTENDS EsoNet

VARIABLES
    requests,  \* the requests that wait for esoca to accept them
    caPerms,   \* the table of permissions in esoca's database
    caCreds,   \* the table of credentials in esoca's database
    caJob,     \* what propagate() sends, and the locations it has left
    issued,    \* auxiliary: issued[k], the values esoca has issued for key k
    freshKey   \* the key material generated next

caVars == <<requests, caPerms, caCreds, caJob, issued, freshKey>>

PermRequests == [type : {"NEW_PERM", "UPDATE_PERM", "DELETE_PERM"}, key : Keys, op : Masks]
CredRequests == [type : {"NEW_CRED"}, cred : CredIds]
Requests == PermRequests \cup CredRequests

NoJob == [msg |-> Torn, todo |-> <<>>]
CaIdle == caJob.todo = <<>>

CaInit ==
    /\ requests = <<>>
    /\ caPerms = EmptyTable
    /\ caCreds = NoCreds
    /\ caJob = NoJob
    /\ issued = [k \in AllKeys |-> <<>>]
    /\ freshKey = NoKey + 1

CaTypeOK ==
    /\ requests \in Seq(Requests)
    /\ caPerms \in [AllKeys -> Rows]
    /\ caCreds \in [CredIds -> Nat]
    /\ caJob \in [msg : Pushes \cup {Torn}, todo : Seq(Esods)]
    /\ issued \in [AllKeys -> Seq(Masks)]
    /\ freshKey \in Nat \ {NoKey}

-----------------------------------------------------------------------------
(***************************************************************************)
(* work(): accept a request and read it.                                   *)
(***************************************************************************)
Accept(r) ==
    /\ up[Ca] /\ CaIdle
    /\ requests # <<>>
    /\ r = Head(requests)
    /\ requests' = Tail(requests)
    /\ UNCHANGED net

\* Mutant of Propagate: only the first line of locations_config is used.
PropagateToFirst(msg) == caJob' = [msg |-> msg, todo |-> SubSeq(Locations, 1, 1)]

\* propagate(): to every location, in the order of locations_config.
Propagate(msg) == caJob' = [msg |-> msg, todo |-> Locations]

IssuePerm(type, k, m) ==
    /\ issued' = [issued EXCEPT ![k] = Append(@, m)]
    /\ Propagate([type |-> type, key |-> k, op |-> m, ver |-> Len(issued[k]) + 1])

(***************************************************************************)
(* NEW_PERM: INSERT, whose status is ignored; the permission that was      *)
(* asked for is propagated.                                                *)
(***************************************************************************)
CaNewPerm(r) ==
    /\ Accept(r) /\ r.type = "NEW_PERM"
    /\ caPerms' \in perform_query(Ca, caPerms, create_permission(caPerms, r.key, r.op))
    /\ IssuePerm("UPDATE_PERM", r.key, r.op)
    /\ UNCHANGED <<caCreds, freshKey>>

(***************************************************************************)
(* UPDATE_PERM: UPDATE, then what the database now holds is propagated:    *)
(* the empty permission if no such row is found.                           *)
(***************************************************************************)
CaUpdatePerm(r) ==
    /\ Accept(r) /\ r.type = "UPDATE_PERM"
    /\ caPerms' \in perform_query(Ca, caPerms, update_permission(caPerms, r.key, r.op))
    /\ \E perm \in get_result(Ca, EmptyPermission, get_permission(caPerms', r.key)) :
           IssuePerm("UPDATE_PERM", perm.key, perm.op)
    /\ UNCHANGED <<caCreds, freshKey>>

CaDeletePerm(r) ==
    /\ Accept(r) /\ r.type = "DELETE_PERM"
    /\ caPerms' \in perform_query(Ca, caPerms, delete_permission(caPerms, r.key))
    /\ IssuePerm("DELETE_PERM", r.key, {})
    /\ UNCHANGED <<caCreds, freshKey>>

\* Mutants of CaNewCred: the key material is generated once more to be sent;
\* the credential is sent and not stored.
CaNewCredTwice(r) ==
    /\ Accept(r) /\ r.type = "NEW_CRED"
    /\ caCreds' = create_credential(caCreds, r.cred, freshKey)
    /\ freshKey' = freshKey + 2
    /\ Propagate([type |-> "NEW_CRED", cred |-> r.cred, mat |-> freshKey + 1])
    /\ UNCHANGED <<caPerms, issued>>

CaNewCredSentOnly(r) ==
    /\ Accept(r) /\ r.type = "NEW_CRED"
    /\ freshKey' = freshKey + 1
    /\ Propagate([type |-> "NEW_CRED", cred |-> r.cred, mat |-> freshKey])
    /\ UNCHANGED <<caPerms, caCreds, issued>>

(***************************************************************************)
(* NEW_CRED: new key material, INSERT with its status ignored; the         *)
(* credential with the new material is propagated.                         *)
(***************************************************************************)
CaNewCred(r) ==
    /\ Accept(r) /\ r.type = "NEW_CRED"
    /\ caCreds' \in perform_query(Ca, caCreds, create_credential(caCreds, r.cred, freshKey))
    /\ freshKey' = freshKey + 1
    /\ Propagate([type |-> "NEW_CRED", cred |-> r.cred, mat |-> freshKey])
    /\ UNCHANGED <<caPerms, issued>>

\* Mutant of CaSend: the loop does not move to the next location.
CaSendAgain ==
    /\ up[Ca] /\ ~CaIdle
    /\ LET d == Head(caJob.todo)
       IN  HasRoom(d) /\ inbox' = Queued(d, caJob.msg)
    /\ UNCHANGED <<up, stuck, pull, caVars>>

(***************************************************************************)
(* propagate(): one line of locations_config; nothing is awaited from the  *)
(* server.  If it cannot be reached esoca exits, and the locations that    *)
(* were left never hear of the change.                                     *)
(***************************************************************************)
CaSend ==
    /\ up[Ca] /\ ~CaIdle
    /\ LET d == Head(caJob.todo)
       IN  HasRoom(d) /\ inbox' = Queued(d, caJob.msg)
    /\ caJob' = IF Len(caJob.todo) = 1 THEN NoJob ELSE [caJob EXCEPT !.todo = Tail(@)]
    /\ UNCHANGED <<up, stuck, pull, requests, caPerms, caCreds, issued, freshKey>>

CaEnds(cut) ==
    /\ Down(Ca, cut)
    /\ requests' = <<>>
    /\ caJob' = NoJob
    /\ UNCHANGED <<caCreds, issued, freshKey>>

CaDown(cut) == CaEnds(cut) /\ UNCHANGED caPerms

(***************************************************************************)
(* UPDATE_PERM up to a SELECT that esoca does not survive: its table has   *)
(* the change, and nobody else will hear of it.                            *)
(***************************************************************************)
CaDies ==
    /\ up[Ca] /\ CaIdle /\ DiesOfSelect(Ca)
    /\ requests # <<>>
    /\ LET r == Head(requests)
       IN  /\ r.type = "UPDATE_PERM"
           /\ caPerms' \in perform_query(Ca, caPerms, update_permission(caPerms, r.key, r.op))
    /\ CaEnds({})

CaExit ==
    /\ up[Ca] /\ ~CaIdle
    /\ Unreachable(Head(caJob.todo))
    /\ CaDown({})

CaHandle ==
    \E r \in Requests :
        CaNewPerm(r) \/ CaUpdatePerm(r) \/ CaDeletePerm(r) \/ CaNewCred(r)

CaNext == CaHandle \/ CaSend \/ CaExit \/ CaDies
=============================================================================
