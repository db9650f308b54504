---------------------------- MODULE MCWorkerPool ----------------------------
(***************************************************************************)
(* WorkerPool with a tracker: the lists of peers are what retrievePeers    *)
(* makes of the answers below.                                             *)
(***************************************************************************)
EXTENDS WorkerPool

MCKeyOrder == <<"failure reason", "interval", "ip", "peers", "port">>

T == INSTANCE Tracker WITH KeyOrder <- MCKeyOrder

Dictionary(entries) == <<T!Token("d")>> \o entries \o <<T!Token("e")>>
ListOf(entries) == <<T!Token("l")>> \o entries \o <<T!Token("e")>>
Num(n) == <<T!IntToken(n)>>
Ip(s) == <<T!Key("ip"), T!StrToken(s, Len(s))>>
Port(n) == <<T!Key("port"), T!IntToken(n)>>

Compact(blob) ==
    [status |-> 200, blob |-> blob,
     text |-> Dictionary(<<T!Key("interval")>> \o Num(900)
                           \o <<T!Key("peers"), T!StrToken("blob", Len(blob))>>)]

Text(text) == [status |-> 200, blob |-> <<>>, text |-> text]
Listed(peers) == Text(Dictionary(<<T!Key("peers")>> \o peers))

\* Answers together with the peers they list.
Answers ==
    {[of |-> Compact(<<10, 0, 0, 1, 26, 225, 10, 0, 0, 2, 0, 80>>),
      lists |-> <<T!Peer("10.0.0.1", 6881), T!Peer("10.0.0.2", 80)>>],
     [of |-> Listed(ListOf(Dictionary(Ip("10.0.0.2") \o Port(80)))),
      lists |-> <<T!Peer("10.0.0.2", 80)>>],
     [of |-> Compact(<<0, 0, 0, 0, 0, 0>>), lists |-> <<T!Peer("0.0.0.0", 0)>>],
     [of |-> Listed(ListOf(<<>>)), lists |-> <<>>]}

\* Answers that give no peers, and answers that end the process.
BadAnswers ==
    {Compact(<<10, 0, 0, 1, 26>>),
     [status |-> 500, blob |-> <<>>, text |-> <<T!Token("?")>>],
     Text(Dictionary(<<T!Key("failure reason"), T!StrToken("no", 2)>>)),
     Listed(Num(3)),
     Listed(ListOf(Dictionary(Ip("10.0.0.2")))),
     Listed(ListOf(Dictionary(Port(80))))}

FatalAnswers ==
    {Text(<<T!Token("?")>>),
     Text(Num(1)),
     Text(Dictionary(<<T!Key("peers")>> \o Num(1)) \o Num(2)),
     Listed(ListOf(Num(1))),
     Listed(ListOf(Dictionary(Ip("10.0.0.2") \o <<T!Key("port"), T!StrToken("80", 2)>>)))}

Responses == {a.of : a \in Answers} \union BadAnswers \union FatalAnswers

IpsOf(peers) == [i \in DOMAIN peers |-> peers[i].ip]

MCTrackerLists == {IpsOf(T!RetrievePeers(r).peers) :
                      r \in {s \in Responses : T!RetrievePeers(s).outcome = "peers"}}

MCTrackerThrows == \E r \in Responses : T!RetrievePeers(r).outcome = "death"

RetrievesWhatIsListed ==
    /\ \A a \in Answers : T!RetrievePeers(a.of) = T!Peers(a.lists)
    /\ \A r \in BadAnswers : T!RetrievePeers(r) = T!Peers(<<>>)

\* retrievePeers gives the peers the tracker lists, in the compact form as in
\* the long one, and none for an answer that is no list: what main then pushes
\* into the queue is a list the tracker sent, and no part of one.
PeersAsListed ==
    /\ main = "ask" => RetrievesWhatIsListed
    /\ main = "clear" => \E a \in Answers : toPush = IpsOf(a.lists)

=============================================================================
