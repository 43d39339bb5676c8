------------------------------ MODULE MCServer ------------------------------
(* Two requests of one client and one of another. *)
EXTENDS Server

CONSTANTS r1, r2, r3, c1, c2, mail, p, q, job

MCClient == [r \in Reqs |-> IF r = r3 THEN c2 ELSE c1]

Task(kind, given, new, again) ==
  [kind |-> kind, email |-> mail, given |-> given, new |-> new, again |-> again]

Ask(a, b, c) == [r \in Reqs |-> IF r = r1 THEN a ELSE IF r = r2 THEN b ELSE c]

Register(w) == Task("register", None, w, FALSE)

LookUpAgain == Task("lookup", None, None, TRUE)

(* What the limiter is there for. *)
MCTimed == {Ask(LookUpAgain, LookUpAgain, LookUpAgain)}

MCTasks ==
  MCTimed \cup
  { (* two registrations of one email *)
    Ask(Register(p), Register(q), Task("login", p, None, FALSE)),
    (* two changes of one password *)
    Ask(Register(p), Task("password", p, q, FALSE), Task("password", p, p, FALSE)),
    (* the rest, and a request that may take long *)
    Ask(Register(p), Task("names", None, None, FALSE), Task("daily", None, None, FALSE)),
    Ask(Register(p), Task("me", None, None, FALSE), Task("daily", None, None, TRUE)) }
=============================================================================
