------------------------------ MODULE MCManager ------------------------------
(* The manager's safety, part by part: admission and rate limits (Listener with       *)
(* Limiter), the handshake, the access filter and the TCB cache.  They share no       *)
(* state that matters to these properties, so an instance runs one part at a time.    *)
EXTENDS MCListener, Handshake, AccessFilter, TcbCache

CONSTANT Parts           \* the parts the instance has

VARIABLE part

managerVars == <<part, vars, handshakeVars, filterVars, tcbVars>>

PortPairs == <<"k1", "k1">>
MTUs == <<1, 3>>

TwoStreamsLimit == Limit(2, Off, Off)
AllConfigs == RateConfigs \cup {TwoStreamsLimit}

\* Rates and admission are bounded differently: rates change and run over a long time
\* and create no connection; two streams at a time are admitted within a short one, and
\* it does not matter whose they are.
Bounds == IF config = TwoStreamsLimit
            THEN config' = config /\ now' <= 1 /\ Len(admitted') <= 3 /\ syn'.src = NoPeer
            ELSE config' # TwoStreamsLimit /\ conns' = <<>>

\* Refusals go to a port nobody has: one of them is as good as many.
OneRefusal == Cardinality({p \in sent' : p.pair = PortZero}) <= 1

ManagerInit ==
    /\ part \in Parts
    /\ Init /\ HandshakeInit /\ FilterInit /\ TcbInit
    /\ part # "listener" => config = TwoStreamsLimit

ManagerNext ==
    /\ UNCHANGED part
    /\ \/ /\ part = "listener" /\ Next /\ Bounds
          /\ UNCHANGED <<handshakeVars, filterVars, tcbVars>>
       \/ /\ part = "handshake" /\ HandshakeNext /\ OneRefusal
          /\ UNCHANGED <<vars, filterVars, tcbVars>>
       \/ /\ part = "filter" /\ FilterNext
          /\ UNCHANGED <<vars, handshakeVars, tcbVars>>
       \/ /\ part = "tcb" /\ TcbNext
          /\ UNCHANGED <<vars, handshakeVars, filterVars>>

ManagerSpec == ManagerInit /\ [][ManagerNext]_managerVars
===============================================================================
