------------------------------ MODULE Accounts ------------------------------
(***************************************************************************)
(* The account requests: register, sign in, look an email up, change the   *)
(* names or the password.  Each is a few database calls, and any of them   *)
(* may fail.  A token is the id of its account (the middleware turns the   *)
(* one into the other); accounts are never deleted.                        *)
(***************************************************************************)
EXTENDS Requests, Integers, Sequences

CONSTANTS Tasks  \* what the requests may be: task[r] is a [kind, email, given,
                 \* new, again], the last if the client may ask again

Kinds == {"register", "login", "lookup", "password", "names", "me", "daily"}

ASSUME TasksAssumption == \A t \in Tasks, r \in Reqs : t[r].kind \in Kinds

VARIABLES task,   \* task[r]: what r asks for
          at,     \* at[r]: where r is, in the end the answer
          users,  \* the collection users, in the order of insertion
          found   \* found[r]: the account r has found or holds a token for;
                  \* of a registration, how many accounts there were

accountVars == <<task, at, users, found>>

Busy == {"find", "insert", "set", "get", "work"}
Answers == {"ok", "refused", "error", "cut"}

AccountsInit ==
  /\ task \in Tasks
  /\ at = [r \in Reqs |-> "idle"]
  /\ users = <<>>
  /\ found = [r \in Reqs |-> None]

(* A client that may ask again is back at the start with its answer. *)
After(r, l) == IF l \in Answers /\ task[r].again THEN "idle" ELSE l

Go(r, l) == at' = [at EXCEPT ![r] = After(r, l)]

WithEmail(e) == {i \in DOMAIN users : users[i].email = e}

(* The handler starts; BearerAuth lets a request about one's own account   *)
(* in only with a token, which is got for an account there is.             *)
Begin(r) ==
  \/ /\ task[r].kind \in {"register", "login", "lookup"}
     /\ Go(r, "find")
     /\ UNCHANGED <<task, users, found>>
  \/ /\ task[r].kind = "daily"
     /\ Go(r, "work")
     /\ UNCHANGED <<task, users, found>>
  \/ /\ task[r].kind \in {"password", "names", "me"}
     /\ \E i \in WithEmail(task[r].email) : found' = [found EXCEPT ![r] = i]
     /\ Go(r, IF task[r].kind = "names" THEN "set" ELSE "get")
     /\ UNCHANGED <<task, users>>

-----------------------------------------------------------------------------
(* Mutant of RegisterLooksUp: goes on with an email that is taken. *)
RegisterAnyway(r) ==
  /\ task[r].kind = "register" /\ at[r] = "find"
  /\ Go(r, "insert")
  /\ found' = [found EXCEPT ![r] = Len(users)]
  /\ UNCHANGED <<task, users>>

RegisterLooksUp(r) ==
  /\ task[r].kind = "register" /\ at[r] = "find"
  /\ Go(r, IF WithEmail(task[r].email) = {} THEN "insert" ELSE "refused")
  /\ found' = [found EXCEPT ![r] = Len(users)]
  /\ UNCHANGED <<task, users>>

(* InsertUser; `looked` is history. *)
Insert(r) ==
  users' = Append(users, [email |-> task[r].email, pass |-> task[r].new,
                          names |-> None, by |-> r, looked |-> found[r]])

RegisterInserts(r) ==
  /\ at[r] = "insert"
  /\ Insert(r)
  /\ Go(r, "ok")
  /\ UNCHANGED <<task, found>>

(* Login: any account with the email may be the one that FindOne returns. *)
Login(r) ==
  /\ task[r].kind = "login" /\ at[r] = "find"
  /\ \/ /\ WithEmail(task[r].email) = {}
        /\ Go(r, "refused")
        /\ UNCHANGED found
     \/ \E i \in WithEmail(task[r].email) :
          /\ found' = [found EXCEPT ![r] = i]
          /\ Go(r, IF users[i].pass = task[r].given THEN "ok" ELSE "refused")
  /\ UNCHANGED <<task, users>>

(* AuthLookup answers whether there is an account. *)
Lookup(r) ==
  /\ task[r].kind = "lookup" /\ at[r] = "find"
  /\ Go(r, "ok")
  /\ UNCHANGED <<task, users, found>>

(* ChangePassword checks the current password against the account it reads ... *)
VerifyPassword(r) ==
  /\ task[r].kind = "password" /\ at[r] = "get"
  /\ Go(r, IF users[found[r]].pass = task[r].given THEN "set" ELSE "refused")
  /\ UNCHANGED <<task, users, found>>

(* ... and sets the new one, whatever it is by then. *)
SetPassword(r) ==
  /\ task[r].kind = "password" /\ at[r] = "set"
  /\ users' = [users EXCEPT ![found[r]].pass = task[r].new]
  /\ Go(r, "ok")
  /\ UNCHANGED <<task, found>>

(* UpdateMe sets the names, and then reads the profile as Me does. *)
SetNames(r) ==
  /\ task[r].kind = "names" /\ at[r] = "set"
  /\ users' = [users EXCEPT ![found[r]].names = r]
  /\ Go(r, "get")
  /\ UNCHANGED <<task, found>>

GetProfile(r) ==
  /\ task[r].kind \in {"me", "names"} /\ at[r] = "get"
  /\ Go(r, "ok")
  /\ UNCHANGED <<task, users, found>>

(* The nightly run, which this module says nothing of. *)
WorkDone(r) ==
  /\ at[r] = "work"
  /\ Go(r, "ok")
  /\ UNCHANGED <<task, users, found>>

(* A database call fails, and an insertion may have been made all the same. *)
CallFails(r) ==
  /\ at[r] \in Busy
  /\ \/ UNCHANGED users
     \/ at[r] = "insert" /\ Insert(r)
  /\ Go(r, "error")
  /\ UNCHANGED <<task, found>>

Handle(r) ==
  \/ RegisterLooksUp(r) \/ RegisterInserts(r)
  \/ Login(r) \/ Lookup(r)
  \/ VerifyPassword(r) \/ SetPassword(r)
  \/ SetNames(r) \/ GetProfile(r)
  \/ WorkDone(r) \/ CallFails(r)

-----------------------------------------------------------------------------
AccountsTypeOK ==
  /\ \A r \in Reqs : task[r].kind \in Kinds
  /\ found \in [Reqs -> (0..Len(users)) \cup {None}]
  /\ at \in [Reqs -> {"idle", "limit"} \cup Busy \cup Answers]

(***************************************************************************)
(* Registration looks the email up and inserts later, and there is no      *)
(* unique index: an email gets a second account only by registrations that *)
(* overlapped, the later having looked before the earlier inserted.        *)
(***************************************************************************)
DuplicateOnlyByOverlap ==
  \A i, j \in DOMAIN users :
    i < j /\ users[i].email = users[j].email => users[j].looked < i
=============================================================================
