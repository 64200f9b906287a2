---------------------------- MODULE RequestService ----------------------------
(* What a Modbus slave promises to a master that waits for it: a request that    *)
(* reached it whole is executed exactly once, before the next one is accepted;   *)
(* a unicast request is then answered, a broadcast is not.                       *)
CONSTANTS Frame, FrameAddress

VARIABLES
    requested,   \* the frame for this slave it has received and not yet executed
    answering,   \* the request executed whose answer is not yet out
    done         \* the requests that are finished with

serviceVars == <<requested, answering, done>>

Init == requested = {} /\ answering = {} /\ done = {}

Request(f) ==
    /\ requested = {} /\ answering = {}
    /\ f \notin done /\ FrameAddress[f] # "other"
    /\ requested' = {f}
    /\ UNCHANGED <<answering, done>>

Execute(f) ==
    /\ requested = {f}
    /\ requested' = {}
    /\ IF FrameAddress[f] = "us"
       THEN answering' = {f} /\ UNCHANGED done
       ELSE done' = done \cup {f} /\ UNCHANGED answering

Answer(f) ==
    /\ answering = {f}
    /\ answering' = {} /\ done' = done \cup {f}
    /\ UNCHANGED requested

Serve == \E f \in Frame : Execute(f) \/ Answer(f)
Next  == Serve \/ \E f \in Frame : Request(f)

\* The slave goes on until what it was asked is done.
Spec == Init /\ [][Next]_serviceVars /\ WF_serviceVars(Serve)
===============================================================================
