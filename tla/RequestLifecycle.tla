-------------------------- MODULE RequestLifecycle --------------------------
(***************************************************************************)
(* What the transport promises the node about a request: once its callback *)
(* is registered it gets responses in the order the peer sent them, none   *)
(* left out, then exactly one end, completed or failed, and nothing after  *)
(* it.  Responses that arrive before the registration are lost, so the     *)
(* first one delivered need not be the first one sent.                     *)
(***************************************************************************)
EXTENDS Naturals, Sequences

CONSTANTS Requests, MaxBlocks, Completed, Failed

VARIABLES open,  \* the requests with a registered callback
          log    \* what each callback has been told

vars == <<open, log>>

Init == /\ open = {}
        /\ log = [r \in Requests |-> <<>>]

Begin(r) == /\ r \notin open
            /\ log[r] = <<>>
            /\ open' = open \union {r}
            /\ UNCHANGED log

Deliver(r, n) ==
  /\ r \in open
  /\ log[r] # <<>> => n = log[r][Len(log[r])] + 1
  /\ log' = [log EXCEPT ![r] = Append(@, n)]
  /\ UNCHANGED open

End(r, how) ==
  /\ r \in open
  /\ open' = open \ {r}
  /\ log' = [log EXCEPT ![r] = Append(@, how)]

Next == \E r \in Requests :
          \/ Begin(r)
          \/ \E n \in 1..MaxBlocks : Deliver(r, n)
          \/ \E how \in {Completed, Failed} : End(r, how)

Spec == Init /\ [][Next]_vars

==============================================================================
