------------------------------ MODULE MCServices ------------------------------
(* Where goroutines of the manager wait for each other: requests that wait for an     *)
(* answer, and the message status tracker.  The two share no state, so an instance    *)
(* runs one of them at a time.                                                        *)
EXTENDS Requests, MessageStatus

CONSTANT Services        \* the services the instance has

VARIABLE service

servicesVars == <<service, requestVars, statusVars>>

ServicesInit == service \in Services /\ RequestsInit /\ StatusInit

ServicesNext ==
    /\ UNCHANGED service
    /\ \/ service = "requests" /\ RequestsNext /\ UNCHANGED statusVars
       \/ service = "status" /\ StatusNext /\ UNCHANGED requestVars

ServicesSpec ==
    ServicesInit /\ [][ServicesNext]_servicesVars /\ RequestsFairness /\ StatusFairness
===============================================================================
