------------------------------ MODULE TopicRoute ------------------------------
(***************************************************************************)
(* TopicRouteData (protocol/TopicRouteData.h): the route of a topic the    *)
(* name server returns.  Decode copies the queue datas and broker datas    *)
(* out of the JSON document and sorts both lists by brokerName (std::sort, *)
(* not stable); operator== compares the lists element by element, which is *)
(* how the client tells a changed route from an unchanged one;             *)
(* selectBrokerAddr returns the master (id 0) address of the first broker  *)
(* that has one.  The JSON text is abstracted to the document it parses    *)
(* to; a document the parser rejects decodes to NULL and is left out.      *)
(***************************************************************************)
EXTENDS Integers, Sequences, SequencesExt

CONSTANTS
    Names,       \* broker names, in lexicographic order (a sequence)
    Addrs,       \* broker addresses
    BrokerIds,   \* broker ids in brokerAddrs (0 is the master)
    QueueNums,   \* values of readQueueNums / writeQueueNums
    Perms,       \* values of perm
    Confs        \* values of orderTopicConf

MASTER_ID == 0
NoAddr == ""

NameSet == {Names[i] : i \in 1 .. Len(Names)}
Rank(s) == CHOOSE i \in 1 .. Len(Names) : Names[i] = s

QueueDatas == [brokerName : NameSet, readQueueNums : QueueNums,
               writeQueueNums : QueueNums, perm : Perms]
BrokerDatas == [brokerName : NameSet,
                brokerAddrs : UNION {[ids -> Addrs] : ids \in SUBSET BrokerIds}]

\* The name server lists each broker at most once.
Listings(S) ==
    {s \in UNION {[1 .. n -> S] : n \in 0 .. Len(Names)} :
        \A i, j \in DOMAIN s : i # j => s[i].brokerName # s[j].brokerName}

Documents == [orderTopicConf : Confs, queueDatas : Listings(QueueDatas),
              brokerDatas : Listings(BrokerDatas)]

\* The same lists in another order.
Reorderings(s) == {[i \in DOMAIN s |-> s[p[i]]] : p \in Permutations(DOMAIN s)}

\* QueueData::operator< and BrokerData::operator<: by brokerName.
NameLess(a, b) == Rank(a.brokerName) < Rank(b.brokerName)

\* The results std::sort can produce: the permutations in which no element
\* is less than one before it.
SortOutcomes(s) == {r \in Reorderings(s) : IsSorted(r, LAMBDA a, b : ~NameLess(b, a))}

\* Mutant of Decode: the broker datas are kept in the order of the document.
DecodeUnsortedBrokers(doc) ==
    {[orderTopicConf |-> doc.orderTopicConf, queueDatas |-> q,
      brokerDatas |-> doc.brokerDatas] : q \in SortOutcomes(doc.queueDatas)}

\* Decode: every field copied, both lists sorted.
Decode(doc) ==
    {[orderTopicConf |-> doc.orderTopicConf, queueDatas |-> q, brokerDatas |-> b] :
        q \in SortOutcomes(doc.queueDatas), b \in SortOutcomes(doc.brokerDatas)}

\* TopicRouteData::operator==: vectors equal element by element (each by
\* QueueData::operator== / BrokerData::operator==), and the conf string.
RouteEqual(r1, r2) ==
    /\ r1.brokerDatas = r2.brokerDatas
    /\ r1.orderTopicConf = r2.orderTopicConf
    /\ r1.queueDatas = r2.queueDatas

\* Mutant of SelectBrokerAddr: only the first broker is looked at.
SelectFirstBrokerOnly(r) ==
    IF r.brokerDatas # <<>> /\ MASTER_ID \in DOMAIN r.brokerDatas[1].brokerAddrs
    THEN r.brokerDatas[1].brokerAddrs[MASTER_ID]
    ELSE NoAddr

\* selectBrokerAddr: the first broker data whose brokerAddrs has MASTER_ID.
SelectBrokerAddr(r) ==
    LET withMaster == {i \in DOMAIN r.brokerDatas :
                         MASTER_ID \in DOMAIN r.brokerDatas[i].brokerAddrs}
        first == CHOOSE i \in withMaster : \A j \in withMaster : i <= j
    IN  IF withMaster = {} THEN NoAddr
        ELSE r.brokerDatas[first].brokerAddrs[MASTER_ID]

VARIABLES doc, relisted
vars == <<doc, relisted>>

\* Every route document, and every other listing of the same route.
Init ==
    /\ doc \in Documents
    /\ relisted \in {[doc EXCEPT !.queueDatas = q, !.brokerDatas = b] :
                       q \in Reorderings(doc.queueDatas),
                       b \in Reorderings(doc.brokerDatas)}

\* Decoding is a pure function: nothing changes.
Next == UNCHANGED vars

Spec == Init /\ [][Next]_vars

-----------------------------------------------------------------------------
\* The client replaces its route only when operator== finds it changed: two
\* listings of the same route by the name server decode to routes that
\* operator== calls equal (Decode's sorts put them in one canonical order).
DecodeIgnoresListOrder ==
    \A r1 \in Decode(doc), r2 \in Decode(relisted) : RouteEqual(r1, r2)

\* Spec section 3 (brokerId 0 is the master): selectBrokerAddr returns a
\* master address whenever some broker of the route has a master, and ""
\* only when none has.
SelectsAMaster ==
    \A r \in Decode(doc) :
        LET masters == {b.brokerAddrs[MASTER_ID] :
                          b \in {r.brokerDatas[i] : i \in DOMAIN r.brokerDatas} \cap
                                {bd \in BrokerDatas : MASTER_ID \in DOMAIN bd.brokerAddrs}}
        IN  IF masters = {} THEN SelectBrokerAddr(r) = NoAddr
            ELSE SelectBrokerAddr(r) \in masters

=============================================================================
