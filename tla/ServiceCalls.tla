---------------------------- MODULE ServiceCalls ----------------------------
(***************************************************************************)
(* The calls of one client to the services of one node.  Every method of   *)
(* the clients of the experts is the same program: wait for the service,   *)
(* send the request, spin the client's own node until the response or a    *)
(* timeout, and return a value that tells of failure when there is none.   *)
(*                                                                         *)
(* A method is a record: the service it calls, whether it waits for it     *)
(* without bound, and whether it dates the client's view when it succeeds. *)
(***************************************************************************)
CONSTANTS
    Methods,        \* the methods of the client
    Services        \* the services that the constructor of the node makes

VARIABLES
    found,          \* do the services of the node exist
    call            \* the call under way, [phase, ...]

callVars == <<found, call>>

(* Methods in C++ that change something and that ask, and in Python *)

Modify(service) == [service |-> service, patient |-> TRUE, dates |-> TRUE]

Ask(service) == [service |-> service, patient |-> TRUE, dates |-> FALSE]

PyCall(service) == [service |-> service, patient |-> FALSE, dates |-> FALSE]

-----------------------------------------------------------------------------
Calling(phase) == call.phase = phase

CallInit ==
    /\ found = FALSE
    /\ call = [phase |-> "idle"]

\* The process of the node starts: its constructor makes the services.
Appear ==
    /\ ~found
    /\ found' = TRUE
    /\ UNCHANGED call

Begin(method) ==
    /\ Calling("idle")
    /\ call' = [phase |-> "looking", method |-> method]
    /\ UNCHANGED found

IsServed(service) == found /\ service \in Services

Send ==
    /\ Calling("looking") /\ IsServed(call.method.service)
    /\ call' = [call EXCEPT !.phase = "sent"]
    /\ UNCHANGED found

\* A client in Python gives up, one in C++ looks again.
NotAvailable ==
    /\ Calling("looking") /\ ~call.method.patient
    /\ ~IsServed(call.method.service)
    /\ call' = [phase |-> "idle"]
    /\ UNCHANGED found

\* The node answers the request waited for.
Answered(service, answer) ==
    /\ Calling("sent") /\ call.method.service = service
    /\ call' = [phase |-> "answered", method |-> call.method, answer |-> answer]
    /\ UNCHANGED found

\* The client cannot tell whether the request is served or will be: to the
\* node it is like one of another client.
TimedOut ==
    /\ Calling("sent") \/ Calling("answered")
    /\ call' = [phase |-> "idle"]
    /\ UNCHANGED found

Return ==
    /\ Calling("answered")
    /\ call' = [phase |-> "idle"]
    /\ UNCHANGED found
=============================================================================
