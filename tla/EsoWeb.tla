-------------------------------- MODULE EsoWeb --------------------------------
(***************************************************************************)
(* The admin web application (central/app): the page of a set, which an    *)
(* admin's browser keeps as it was when it was loaded, plus what the admin *)
(* has done on it since.  A button sends a request to esoca and does not   *)
(* wait for it to be handled: the page is updated as soon as the request   *)
(* has been sent.                                                          *)
(***************************************************************************)
EXTENDS Esoca

CONSTANTS Admins,       \* the browsers that show the page
          Grants,       \* the sets of operations that admins choose
          Reloads,      \* TRUE: an admin may load the page again
          ChecksPage,   \* TRUE: admins add no row for what their page lists;
                        \* nothing in the code keeps them from it
          MaxRequests   \* bound: how many requests are made

ASSUME WebAssumption ==
    /\ Grants \subseteq Masks
    /\ {Reloads, ChecksPage} \subseteq BOOLEAN
    /\ MaxRequests \in Nat

\* A page lists permissions and credentials apart from each other.
ASSUME PageAssumption == Keys \cap CredIds = {}

VARIABLES
    page,     \* page[a]: the permissions and credentials the page lists
    nRequests \* how many requests were made

webVars == <<page, nRequests>>

WebInit ==
    /\ page = [a \in Admins |-> {}]
    /\ nRequests = 0

WebTypeOK ==
    /\ page \in [Admins -> SUBSET (Keys \cup CredIds)]
    /\ nRequests \in Nat

(***************************************************************************)
(* request_daemon: connect, send, do not wait.  If esoca does not listen,  *)
(* the browser shows an error and the page stays as it is.                 *)
(***************************************************************************)
Request(r) ==
    /\ up[Ca] /\ Len(requests) < Backlog
    /\ nRequests < MaxRequests
    /\ requests' = Append(requests, r)
    /\ nRequests' = nRequests + 1
    /\ UNCHANGED <<net, caPerms, caCreds, caJob, issued, freshKey>>

\* An admin adds a row ...
CreatePerm(a, k, m) ==
    /\ ChecksPage => k \notin page[a]
    /\ Request([type |-> "NEW_PERM", key |-> k, op |-> m])
    /\ page' = [page EXCEPT ![a] = @ \cup {k}]

CreateCred(a, c) ==
    /\ ChecksPage => c \notin page[a]
    /\ Request([type |-> "NEW_CRED", cred |-> c])
    /\ page' = [page EXCEPT ![a] = @ \cup {c}]

\* ... and edits or removes the rows that the page lists.
UpdatePerm(a, k, m) ==
    /\ k \in page[a]
    /\ Request([type |-> "UPDATE_PERM", key |-> k, op |-> m])
    /\ UNCHANGED page

\* Mutant of RemovePerm: the row stays on the page.
RemoveKeepsRow(a, k) ==
    /\ k \in page[a]
    /\ Request([type |-> "DELETE_PERM", key |-> k, op |-> {}])
    /\ UNCHANGED page

RemovePerm(a, k) ==
    /\ k \in page[a]
    /\ Request([type |-> "DELETE_PERM", key |-> k, op |-> {}])
    /\ page' = [page EXCEPT ![a] = @ \ {k}]

(***************************************************************************)
(* viewSet reads esoca's database, not through esoca: requests that esoca  *)
(* has not handled yet are not in it.  When a SELECT fails the page lists  *)
(* nothing, or the application dies of it and the page stays as it is.     *)
(***************************************************************************)
viewPerms == {k \in Keys : caPerms[k] # NoRow}
viewCreds == {c \in CredIds : caCreds[c] # NoKey}
viewSet == viewPerms \cup viewCreds

Reload(a) ==
    /\ Reloads
    /\ \E perms \in get_result(Ca, {}, viewPerms), creds \in get_result(Ca, {}, viewCreds) :
           page' = [page EXCEPT ![a] = perms \cup creds]
    /\ UNCHANGED <<net, caVars, nRequests>>

WebNext ==
    \E a \in Admins :
        \/ \E k \in Keys :
              \/ \E m \in Grants : CreatePerm(a, k, m) \/ UpdatePerm(a, k, m)
              \/ RemovePerm(a, k)
        \/ \E c \in CredIds : CreateCred(a, c)
        \/ Reload(a)
=============================================================================
