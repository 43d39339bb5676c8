------------------------------ MODULE Requests ------------------------------
(* The requests that are made of the server. *)
CONSTANTS Reqs, \* requests
          None  \* no value
=============================================================================
