------------------------------ MODULE Mixnet ------------------------------
(***************************************************************************)
(* The mixnet of deprecated/mixnet_v1: a client that emits the packets of  *)
(* the messages it publishes among redundant copies and cover packets,     *)
(* mix nodes that hold every packet back for a time of its own, and the    *)
(* last node of each route, which puts the messages together again.  A     *)
(* node handles each packet in a task of its own and a queue's put never   *)
(* waits, so what is on its way is a bag of packets, in a socket or in a   *)
(* task, of which any may be next.                                         *)
(***************************************************************************)
EXTENDS Packet, Bags

CONSTANTS
  NumLayers, NumMixnodesPerLayer,  \* MixnetTopologySize
  Shuffles,      \* what FisherYates.shuffle makes of the candidates, an element per entropy
  Redundancy,    \* MixClientConfig.redundancy
  Messages,      \* what may be published
  MaxPublished,  \* bound of the messages published
  MaxCovers,     \* bound of the cover packets on their way at one time
  MaxLosses,     \* packets that the transport between nodes may lose
  MaxEntropies   \* bound of the entropies received

ASSUME SizeAssumption ==
  /\ {NumLayers, NumMixnodesPerLayer, Redundancy} \subseteq Nat \ {0}
  /\ \A s \in Shuffles : s \in Seq(ToSet(s)) /\ Len(s) >= NumLayers * NumMixnodesPerLayer
ASSUME MessagesAssumption == \A msg \in Messages : msg \in Seq(ToSet(msg))
ASSUME BoundsAssumption == {MaxPublished, MaxCovers, MaxLosses, MaxEntropies} \subseteq Nat

VARIABLES
  topology,                     \* MixnetTopology.layers
  real_packet_queue,
  redundant_real_packet_queue,
  packets,                      \* bag of packets on their way, [fragment, route], the
                                \* route being the nodes that have still to process it
  fragmentSets,                 \* each destination's MessageReconstructor
  entropies, losses,            \* received and lost so far
  published,                    \* history: the messages sent, whose numbers are the set ids
  delivered                     \* history: bag of [at, set_id, msg] put together

client_vars == << topology, real_packet_queue, redundant_real_packet_queue, entropies, published >>
mixnet_vars == << client_vars, packets, fragmentSets, losses, delivered >>

\* Every cover message has a set of its own, of one fragment: the sets need no names.
CoverSet == 0

layers(shuffled) ==
  [l \in 1 .. NumLayers |->
     ToSet(SubSeq(shuffled, (l - 1) * NumMixnodesPerLayer + 1, l * NumMixnodesPerLayer))]

Mixnode == UNION { ToSet(s) : s \in Shuffles }

choose_mix_destination == topology[NumLayers]

\* The routes generate_route can return.
routes(destination) ==
  { r \in [1 .. NumLayers -> Mixnode] :
      r[NumLayers] = destination /\ \A l \in 1 .. NumLayers - 1 : r[l] \in topology[l] }

\* The packets __build_packets can return: one route for each fragment, one destination.
build_packets(fragments, destination) ==
  { [i \in DOMAIN fragments |-> [fragment |-> fragments[i], route |-> route[i]]] :
      route \in [DOMAIN fragments -> routes(destination)] }

---------------------------------------------------------------------------
MixnetInit ==
  /\ topology \in { layers(s) : s \in Shuffles }
  /\ real_packet_queue = << >> /\ redundant_real_packet_queue = << >>
  /\ packets = EmptyBag
  /\ fragmentSets = [n \in Mixnode |-> << >>]
  /\ entropies = 0 /\ losses = 0
  /\ published = << >>
  /\ delivered = EmptyBag

\* Mixnet.publish_message; the message is refused whole when it does not fit.
send_message(msg) ==
  /\ Len(published) < MaxPublished
  /\ LET data == << MESSAGE_FLAG_REAL >> \o msg
     IN  /\ fits(data)
         /\ \E destination \in choose_mix_destination :
            \E out \in build_packets(fragments_of(Len(published) + 1, data), destination) :
              /\ real_packet_queue' = real_packet_queue \o out
              /\ published' = Append(published, [msg |-> msg, destination |-> destination])
  /\ UNCHANGED << topology, redundant_real_packet_queue, packets, fragmentSets, entropies,
                  losses, delivered >>

\* Mixnet.__consume_entropy: only the client learns the new topology.
set_topology ==
  /\ entropies < MaxEntropies
  /\ entropies' = entropies + 1
  /\ topology' \in { layers(s) : s \in Shuffles }
  /\ UNCHANGED << real_packet_queue, redundant_real_packet_queue, packets, fragmentSets,
                  losses, published, delivered >>

copies(packet, n) == IF n = 0 THEN EmptyBag ELSE [p \in {packet} |-> n]

is_cover(p) == p.fragment.set_id = CoverSet
covers_on_way == BagCardinality(Restrict(packets, { p \in BagToSet(packets) : is_cover(p) }))

drop_cover_packets ==
  UNION { build_packets(fragments_of(CoverSet, << MESSAGE_FLAG_DROP_COVER >>), destination) :
            destination \in choose_mix_destination }

\* __emit, at an emission time: a redundant copy, when there is one, and nothing else.
EmitRedundant ==
  /\ redundant_real_packet_queue # << >>
  /\ packets' = packets (+) copies(Head(redundant_real_packet_queue), 1)
  /\ redundant_real_packet_queue' = Tail(redundant_real_packet_queue)
  /\ UNCHANGED << topology, real_packet_queue, fragmentSets, entropies, losses, published, delivered >>

\* Faulty variant: a range one too short.
EmitReal_short(cover) ==
  /\ redundant_real_packet_queue = << >> /\ real_packet_queue # << >>
  /\ LET n == IF Redundancy < 2 THEN 0 ELSE Redundancy - 2
         packet == Head(real_packet_queue)
     IN  /\ redundant_real_packet_queue' = [i \in 1 .. n |-> packet]
         /\ packets' = packets (+) copies(packet, n) (+) copies(cover, 1)
  /\ real_packet_queue' = Tail(real_packet_queue)
  /\ UNCHANGED << topology, fragmentSets, entropies, losses, published, delivered >>

\* Else the next real packet, all copies of it but the redundant ones at once, and a cover packet.
EmitReal(cover) ==
  /\ redundant_real_packet_queue = << >> /\ real_packet_queue # << >>
  /\ LET n == Redundancy - 1
         packet == Head(real_packet_queue)
     IN  /\ redundant_real_packet_queue' = [i \in 1 .. n |-> packet]
         /\ packets' = packets (+) copies(packet, n) (+) copies(cover, 1)
  /\ real_packet_queue' = Tail(real_packet_queue)
  /\ UNCHANGED << topology, fragmentSets, entropies, losses, published, delivered >>

EmitCover(cover) ==
  /\ redundant_real_packet_queue = << >> /\ real_packet_queue = << >>
  /\ packets' = packets (+) copies(cover, 1)
  /\ UNCHANGED << client_vars, fragmentSets, losses, delivered >>

emit ==
  /\ covers_on_way < MaxCovers
  /\ \/ EmitRedundant
     \/ \E out \in drop_cover_packets : EmitReal(out[1]) \/ EmitCover(out[1])

---------------------------------------------------------------------------
\* MixNode.__process_packet, when the packet's delay is over.
ForwardHop(p) ==
  /\ Len(p.route) > 1
  /\ packets' = (packets (-) copies(p, 1)) (+) copies([p EXCEPT !.route = Tail(@)], 1)
  /\ UNCHANGED << client_vars, fragmentSets, losses, delivered >>

\* The payload reaches the destination, which gives it to its reconstructor.
FinalHop(p) ==
  /\ Len(p.route) = 1
  /\ packets' = packets (-) copies(p, 1)
  /\ LET at == p.route[1]
     IN  \E added \in {add(fragmentSets[at], p.fragment)} :
           /\ fragmentSets' = [fragmentSets EXCEPT ![at] = added.sets]
           /\ delivered' =
                IF added.message # << >> /\ Head(added.message) = MESSAGE_FLAG_REAL
                  THEN delivered (+) copies([at |-> at, set_id |-> p.fragment.set_id,
                                             msg |-> parse_msg_and_flag(added.message).msg], 1)
                  ELSE delivered
  /\ UNCHANGED << client_vars, losses >>

process_packet(p) == ForwardHop(p) \/ FinalHop(p)

\* The transport between client and nodes, which is not in src/, loses a packet.
Lose(p) ==
  /\ losses < MaxLosses
  /\ losses' = losses + 1
  /\ packets' = packets (-) copies(p, 1)
  /\ UNCHANGED << client_vars, fragmentSets, delivered >>

MixnetNext ==
  \/ \E msg \in Messages : send_message(msg)
  \/ set_topology
  \/ emit
  \/ \E p \in BagToSet(packets) : process_packet(p) \/ Lose(p)

MixnetSpec == MixnetInit /\ [][MixnetNext]_mixnet_vars

\* The notifier's ticks never stop and every packet's delay ends.  Real packets make
\* finitely many steps, so it is enough that some real packet is always processed.
process_real == \E p \in BagToSet(packets) : ~ is_cover(p) /\ process_packet(p)
process_cover == \E p \in BagToSet(packets) : is_cover(p) /\ process_packet(p)

FairMixnetSpec ==
  MixnetSpec /\ WF_mixnet_vars(emit) /\ WF_mixnet_vars(process_real) /\ WF_mixnet_vars(process_cover)

---------------------------------------------------------------------------
\* Properties.

\* The variables have the types the code gives them; a packet has a node before it.
MixnetTypeOK ==
  /\ topology \in [1 .. NumLayers -> SUBSET Mixnode]
  /\ IsABag(packets) /\ IsABag(delivered)
  /\ \A p \in BagToSet(packets) \cup ToSet(real_packet_queue) \cup ToSet(redundant_real_packet_queue) :
       /\ Len(p.route) \in 1 .. NumLayers /\ ToSet(p.route) \subseteq Mixnode
       /\ p.fragment.fragment_id < p.fragment.total_fragments
       /\ p.fragment.total_fragments < ByteValues
  /\ \A n \in Mixnode : DOMAIN fragmentSets[n] \subseteq DOMAIN published

(***************************************************************************)
(* What a destination puts together is a message as it was published, and  *)
(* to it, whatever the order in which the fragments of several messages    *)
(* come, however often each of them comes, and whichever topology the      *)
(* client had when it cut them.                                            *)
(***************************************************************************)
DeliveredAsPublished ==
  \A d \in BagToSet(delivered) :
    d.msg = published[d.set_id].msg /\ d.at = published[d.set_id].destination

(***************************************************************************)
(* Copies that come when their set is complete and deleted open it again,  *)
(* so a message can be delivered again, but not more often than each of    *)
(* its fragments is emitted.  (Counted are deliveries of what was          *)
(* published; DeliveredAsPublished says that there are no others.)         *)
(***************************************************************************)
times_delivered(id) ==
  LET d == [at |-> published[id].destination, set_id |-> id, msg |-> published[id].msg]
  IN  IF BagIn(d, delivered) THEN delivered[d] ELSE 0

DeliveredAtMostCopies ==
  \A id \in DOMAIN published : times_delivered(id) =< 2 * (Redundancy - 1)

\* Every message published is delivered, if fewer packets are lost than a fragment has copies.
PublishedIsDelivered ==
  \A id \in 1 .. MaxPublished :
    id \in DOMAIN published ~> id \in DOMAIN published /\ times_delivered(id) > 0
==========================================================================
