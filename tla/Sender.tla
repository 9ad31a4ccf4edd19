------------------------------- MODULE Sender -------------------------------
(***************************************************************************)
(* What a redis.Sender promises its callers (src/redis/sender.go and the   *)
(* Future of src/redis/request.go): every callback passed in is resolved   *)
(* once, with the reply to its own request or with an error, possibly      *)
(* before Send returns.  src/redis/sender.go says that after Close all     *)
(* requests get an error at once; here, as in the code, that holds from    *)
(* the moment Close takes effect, and until then they may be taken on.     *)
(***************************************************************************)
CONSTANTS
    Callbacks,  \* (future, index) pairs the callers will pass in
    Vacuous     \* those of transactions without requests

VARIABLES
    closing,    \* Close was called, or the context ended
    closed,     \* ... and has taken effect
    out         \* out[f]: what the caller of f has seen

Status == {"none", "pending", "reply", "error"}

Init == closing = FALSE /\ closed = FALSE /\ out = [f \in Callbacks |-> "none"]

\* Some callbacks whose status is from get a status in to.
Become(from, to) ==
    /\ out' # out /\ out' \in [Callbacks -> Status]
    /\ \A f \in Callbacks : out'[f] # out[f] => out[f] = from /\ out'[f] \in to
    /\ UNCHANGED <<closing, closed>>

\* Send, SendMany or SendTransaction takes requests on.
Accept == ~closed /\ Become("none", {"pending"})

\* ... or resolves their callbacks with an error right away.
Refuse == Become("none", {"error"})

\* A transaction without requests needs no server.
Trivial ==
    /\ Become("none", {"reply"})
    /\ \A f \in Callbacks \ Vacuous : out'[f] = out[f]

Resolve == Become("pending", {"reply", "error"})

Close == ~closing /\ closing' = TRUE /\ UNCHANGED <<closed, out>>

\* From here on nothing is taken on.
TakeEffect == closing /\ ~closed /\ closed' = TRUE /\ UNCHANGED <<closing, out>>

Next == Accept \/ Refuse \/ Trivial \/ Resolve \/ Close \/ TakeEffect

Spec == Init /\ [][Next]_<<closing, closed, out>>

=============================================================================
