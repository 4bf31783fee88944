----------------------------- MODULE UserPanel -----------------------------
(***************************************************************************)
(* The panel where an admin lists, adds and removes users                  *)
(* (client/src/components/UsersPanal, Lists/Users.js, Register/Register.js *)
(* and the operations of state/redux/auth).                                *)
(*                                                                         *)
(* Both tabs of the panel are mounted while it is open.  The list is one   *)
(* array, shared by the store and the component, and changed in place.  A  *)
(* request is served at some time after it is sent and answered at some    *)
(* time after that; what the server does with a user is Accounts' matter,  *)
(* here a user is added if new and removed if there, the root never.  The  *)
(* field of the name stands for the role too, which must be chosen.        *)
(***************************************************************************)
EXTENDS Integers, FiniteSets, Sequences, Functions

CONSTANTS
  Users,        \* user names
  Root,         \* one of them, the admin of the connection profile
  Passwords,    \* what may be typed, but nothing
  None,         \* neither of these
  MaxEdits,     \* bound: changes of a field
  MaxSubmits,   \* bound: registrations submitted
  MaxDeletes,   \* bound: deletions confirmed
  MaxFails      \* bound: requests rejected

(* The lists of users are finite, the bounds numbers.                      *)
UserParameters ==
  /\ IsFiniteSet(Users) /\ None \notin Users
  /\ {MaxEdits, MaxSubmits, MaxDeletes, MaxFails} \subseteq Nat

VARIABLES
  rows,       \* users of the network in the database
  users,      \* the list: auth.userlists, and state.userlists of Users
  selected,   \* state.selectedUser
  prompt,     \* "Delete a user?" is shown
  form,       \* state of Register: fields, password2.error and allValid
  saved,      \* state.lastSaved and info
  requests,   \* requests without an answer
  page,       \* "open", or "broken" by an exception while rendering
  added,      \* history: users that were added
  crossed,    \* history: something was sent while an answer was awaited
  n           \* counters of the bounds

vars == <<rows, users, selected, prompt, form, saved, requests, page, added, crossed, n>>

Empty == [user |-> None, password |-> None, password2 |-> None, mismatch |-> FALSE,
          allValid |-> FALSE]
Typed == Passwords \cup {None}

TypeOK ==
  /\ rows \subseteq Users /\ Range(users) \subseteq Users
  /\ selected \in Users \cup {None} /\ prompt \in BOOLEAN
  /\ form \in [user : Users \cup {None}, password : Typed, password2 : Typed,
               mismatch : BOOLEAN, allValid : BOOLEAN]
  /\ saved \in [user : Users \cup {None}, status : {"success", "error", "none"}]
  /\ \A r \in requests :
       /\ r.kind \in {"register", "userlist", "unregister"} /\ r.user \in Users
       /\ r.status \in {"sent", "success", "error"}
  /\ page \in {"open", "broken"} /\ added \subseteq Users /\ crossed \in BOOLEAN
  /\ n \in [edits : 0 .. MaxEdits, submits : 0 .. MaxSubmits, deletes : 0 .. MaxDeletes,
            fails : 0 .. MaxFails]

(* The table has no order.                                                 *)
InAnyOrder(S) == Injection(1 .. Cardinality(S), S)

(* LandingPage has fetched the list.                                       *)
Init ==
  /\ \E k \in SUBSET Users : Root \in k /\ rows = k
  /\ users \in InAnyOrder(rows)
  /\ selected = None /\ prompt = FALSE
  /\ form = Empty /\ saved = [user |-> None, status |-> "none"]
  /\ requests = {} /\ page = "open" /\ added = {} /\ crossed = FALSE
  /\ n = [edits |-> 0, submits |-> 0, deletes |-> 0, fails |-> 0]

Count(k) == [n EXCEPT ![k] = @ + 1]
Request(kind, u) ==
  [id |-> n.submits + n.deletes, kind |-> kind, user |-> u, status |-> "sent", list |-> <<>>,
   info |-> "none", equal |-> TRUE]

-----------------------------------------------------------------------------
(* Register.                                                               *)

(* Whether the changed form may be submitted.                              *)
Validated(f) ==
  [f EXCEPT !.allValid = /\ f.user # None /\ f.password # None /\ f.password2 # None
                         /\ ~f.mismatch]

(* MUTANT of ChangePassword: only the confirmation is compared.            *)
ChangePasswordOnly(v) ==
  form' = Validated([form EXCEPT !.password = v, !.mismatch = FALSE])

(* handleChange: a password is compared with the confirmation when there   *)
(* is one, the confirmation with the password when there is one.           *)
ChangePassword(v) ==
  form' = Validated([form EXCEPT !.password = v,
                                 !.mismatch = form.password2 # None /\ v # form.password2])
ChangePassword2(v) ==
  form' = Validated([form EXCEPT !.password2 = v,
                                 !.mismatch = form.password # None /\ v # form.password])
ChangeUser(u) == form' = Validated([form EXCEPT !.user = u])

HandleChange ==
  /\ page = "open" /\ n.edits < MaxEdits
  /\ n' = Count("edits")
  /\ \/ \E v \in Typed : v # form.password /\ ChangePassword(v)
     \/ \E v \in Typed : v # form.password2 /\ ChangePassword2(v)
     \/ \E u \in Users \cup {None} : u # form.user /\ ChangeUser(u)
  /\ UNCHANGED <<rows, users, selected, prompt, saved, requests, page, added, crossed>>

(* The button is enabled and the browser finds the required fields filled; *)
(* resetForm leaves allValid as it was.                                    *)
Submittable == form.allValid /\ form.user # None /\ form.password # None
                 /\ form.password2 # None

(* MUTANT of SubmitForm: the button is always enabled.                     *)
SubmitAnyForm ==
  /\ page = "open" /\ n.submits < MaxSubmits
  /\ requests' = requests \cup
       {[Request("register", form.user) EXCEPT !.equal = form.password = form.password2]}
  /\ crossed' = (crossed \/ requests # {})
  /\ n' = Count("submits")
  /\ UNCHANGED <<rows, users, selected, prompt, form, saved, page, added>>

SubmitForm ==
  /\ page = "open" /\ n.submits < MaxSubmits /\ Submittable
  /\ requests' = requests \cup
       {[Request("register", form.user) EXCEPT !.equal = form.password = form.password2]}
  /\ crossed' = (crossed \/ requests # {})
  /\ n' = Count("submits")
  /\ UNCHANGED <<rows, users, selected, prompt, form, saved, page, added>>

(* Registered or not, the list is fetched next.                            *)
RegisterAnswered(r) ==
  /\ r.kind = "register" /\ r.status # "sent"
  /\ requests' = (requests \ {r}) \cup
       {[r EXCEPT !.kind = "userlist", !.status = "sent", !.info = r.status]}
  /\ UNCHANGED <<rows, users, selected, prompt, form, saved, page, added, crossed, n>>

(* MUTANT of ListAnswered: the user is read after the answer came.         *)
ListAnsweredLate(r) ==
  /\ r.kind = "userlist" /\ r.status # "sent"
  /\ users' = r.list
  /\ saved' = [user |-> form.user, status |-> r.info]
  /\ form' = [Empty EXCEPT !.allValid = form.allValid]
  /\ requests' = requests \ {r}
  /\ UNCHANGED <<rows, selected, prompt, page, added, crossed, n>>

(* The new list, the message for the user that was submitted, and          *)
(* resetForm, whatever was typed since.                                    *)
ListAnswered(r) ==
  /\ r.kind = "userlist" /\ r.status # "sent"
  /\ users' = r.list
  /\ saved' = [user |-> r.user, status |-> r.info]
  /\ form' = [Empty EXCEPT !.allValid = form.allValid]
  /\ requests' = requests \ {r}
  /\ UNCHANGED <<rows, selected, prompt, page, added, crossed, n>>

-----------------------------------------------------------------------------
(* Users.                                                                  *)

DeletePrompt(u) ==
  /\ page = "open" /\ ~prompt
  /\ \E i \in DOMAIN users : users[i] = u
  /\ prompt' = TRUE /\ selected' = u
  /\ UNCHANGED <<rows, users, form, saved, requests, page, added, crossed, n>>

HandleClose ==
  /\ prompt
  /\ prompt' = FALSE
  /\ UNCHANGED <<rows, users, selected, form, saved, requests, page, added, crossed, n>>

(* removeUser is started with the selected user, which is cleared at once. *)
HandleDelete ==
  /\ page = "open" /\ prompt /\ n.deletes < MaxDeletes /\ selected # None
  /\ requests' = requests \cup {Request("unregister", selected)}
  /\ crossed' = (crossed \/ requests # {})
  /\ selected' = None /\ prompt' = FALSE
  /\ n' = Count("deletes")
  /\ UNCHANGED <<rows, users, form, saved, page, added>>

(* splice: the list without one of its entries.                            *)
Without(list, i) == [j \in 1 .. Len(list) - 1 |-> IF j < i THEN list[j] ELSE list[j + 1]]

(* findIndex and splice: the entry of the user that is selected by now; an *)
(* index of -1 is the last.                                                *)
ReloadUsers ==
  IF users = <<>> THEN users
  ELSE IF \E i \in DOMAIN users : users[i] = selected
       THEN Without(users, CHOOSE i \in DOMAIN users : users[i] = selected)
       ELSE Without(users, Len(users))

(* MUTANT of RemoveAnswered: the answer is taken for a success.            *)
RemoveAnsweredAny(r) ==
  /\ r.kind = "unregister" /\ r.status # "sent"
  /\ users' = ReloadUsers
  /\ requests' = requests \ {r}
  /\ UNCHANGED <<rows, selected, prompt, form, saved, page, added, crossed, n>>

RemoveAnswered(r) ==
  /\ r.kind = "unregister" /\ r.status # "sent"
  /\ users' = IF r.status = "success" THEN ReloadUsers ELSE users
  /\ requests' = requests \ {r}
  /\ UNCHANGED <<rows, selected, prompt, form, saved, page, added, crossed, n>>

-----------------------------------------------------------------------------
(* The server, and requests that are rejected.                             *)

Replied(r, status) == requests' = (requests \ {r}) \cup {[r EXCEPT !.status = status]}

Register(r) ==
  /\ r.kind = "register" /\ r.status = "sent"
  /\ Replied(r, IF r.user \in rows THEN "error" ELSE "success")
  /\ rows' = rows \cup {r.user} /\ added' = added \cup ({r.user} \ rows)
  /\ UNCHANGED <<users, selected, prompt, form, saved, page, crossed, n>>

Unregister(r) ==
  /\ r.kind = "unregister" /\ r.status = "sent"
  /\ Replied(r, IF r.user \in rows \ {Root} THEN "success" ELSE "error")
  /\ rows' = rows \ ({r.user} \ {Root})
  /\ UNCHANGED <<users, selected, prompt, form, saved, page, added, crossed, n>>

Userlist(r) ==
  /\ r.kind = "userlist" /\ r.status = "sent"
  /\ \E s \in InAnyOrder(rows) :
       requests' = (requests \ {r}) \cup {[r EXCEPT !.status = "success", !.list = s]}
  /\ UNCHANGED <<rows, users, selected, prompt, form, saved, page, added, crossed, n>>

(* errorAction puts the Error in the store, and Register renders it.       *)
Rejected(r) ==
  /\ r.status = "sent" /\ n.fails < MaxFails
  /\ page' = "broken" /\ requests' = {} /\ n' = Count("fails")
  /\ UNCHANGED <<rows, users, selected, prompt, form, saved, added, crossed>>

Answer ==
  \E r \in requests :
    \/ Register(r) \/ Unregister(r) \/ Userlist(r)
    \/ RegisterAnswered(r) \/ ListAnswered(r) \/ RemoveAnswered(r)

Next ==
  \/ HandleChange \/ SubmitForm \/ HandleClose \/ HandleDelete
  \/ \E u \in Users : DeletePrompt(u)
  \/ Answer
  \/ \E r \in requests : Rejected(r)

Spec == Init /\ [][Next]_vars

-----------------------------------------------------------------------------
(* Properties.                                                             *)

(* No registration is sent with a confirmation that differs, in whatever    *)
(* order the fields are filled, cleared and reset (Register.handleChange).  *)
ConfirmedPassword == \A r \in requests : r.kind = "register" => r.equal

(* A success that is shown is of a user that was added, whatever was typed  *)
(* and submitted before the answer (Register.submitForm).                   *)
SavedWasAdded == saved.status = "success" => saved.user \in added

(* The list has as many entries as there are users when every answer has    *)
(* come and each was awaited, whichever entry was taken out                 *)
(* (Users.removeUser, reloadUsers).                                         *)
ListLength ==
  page = "open" /\ requests = {} /\ ~crossed => Len(users) = Cardinality(rows)

(* The panel agrees with what was typed, sent and answered (Register,      *)
(* Users).                                                                 *)
UsersAgree == ConfirmedPassword /\ SavedWasAdded /\ ListLength

-----------------------------------------------------------------------------
(* What the documentation says and the code does not do (README, 5).       *)

(* The panel lists all users (release_notes/v1.1.4.md:6).                   *)
PanelListsUsers ==
  page = "open" /\ requests = {} /\ ~crossed => Range(users) = rows

=============================================================================
