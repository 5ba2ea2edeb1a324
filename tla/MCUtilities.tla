---------------------------- MODULE MCUtilities ----------------------------
(* The thread pool and the queue, each on its own: two workers, two        *)
(* clients and two of the four priority classes; three producers, and      *)
(* fewer addresses than nodes made, so that addresses are used again.      *)
EXTENDS ThreadPool, MpscQueue

CONSTANTS w1, w2, c1, c2, p1, p2, p3, n1, n2, n3, n4

VARIABLE part

utilityVars == <<part, vars, queueVars>>

UtilitiesInit ==
    /\ part \in {"pool", "queue"}
    /\ Init /\ QueueInit
    /\ part # "queue" => head = n1

InPool(action)  == part = "pool" /\ action /\ UNCHANGED <<part, queueVars>>
InQueue(action) == part = "queue" /\ action /\ UNCHANGED <<part, vars>>

UtilitiesNext == InPool(Next) \/ InQueue(QueueNext)

\* The fairness of both modules.
UtilitiesSpec ==
    /\ UtilitiesInit /\ [][UtilitiesNext]_utilityVars
    /\ \A w \in Workers : WF_utilityVars(InPool(WorkerStep(w)))
    /\ \A c \in Clients : WF_utilityVars(InPool(ClientStep(c)))
    /\ WF_utilityVars(InPool(DestroyNotifies)) /\ WF_utilityVars(InPool(Join))
    /\ \A p \in Producers : WF_utilityVars(InQueue(PushExchange(p) \/ PushLink(p)))
    /\ WF_utilityVars(InQueue(TryPop))
=============================================================================
