------------------------------ MODULE Packet ------------------------------
(***************************************************************************)
(* mixnet_v1/packet.py: a message is cut into fragments, each of which     *)
(* travels in a packet of its own, and MessageReconstructor puts it        *)
(* together again from fragments that come in any order and repeatedly.    *)
(* Bytes are opaque values; a Sphinx packet is what its layers hide: a     *)
(* fragment and the nodes it has still to pass.                            *)
(***************************************************************************)
EXTENDS Integers, Sequences, FiniteSets, Functions, SequencesExt

CONSTANTS
  MAX_PAYLOAD_SIZE,  \* Fragment.MAX_PAYLOAD_SIZE
  ByteValues         \* the values an unsigned byte has

\* A byte has more than one value: a cover packet's total_fragments, 1, can be written.
ASSUME PacketAssumption == MAX_PAYLOAD_SIZE \in Nat \ {0} /\ ByteValues \in Nat \ {0, 1}

MESSAGE_FLAG_REAL == "REAL"
MESSAGE_FLAG_DROP_COVER == "DROP_COVER"

chunks(data) ==
  [i \in 1 .. (Len(data) + MAX_PAYLOAD_SIZE - 1) \div MAX_PAYLOAD_SIZE |->
     SubSeq(data, (i - 1) * MAX_PAYLOAD_SIZE + 1,
            IF i * MAX_PAYLOAD_SIZE < Len(data) THEN i * MAX_PAYLOAD_SIZE ELSE Len(data))]

MAX_FRAGMENTS == ByteValues

\* Faulty variant: FragmentSet's own check alone.
fits_by_count(data) == Len(chunks(data)) =< MAX_FRAGMENTS

\* The check of FragmentSet, and that of to_bytes(1) when a header is written: a set of
\* exactly MAX_FRAGMENTS fragments passes the first and fails the second.
fits(data) == Len(chunks(data)) =< MAX_FRAGMENTS /\ Len(chunks(data)) < ByteValues

\* FragmentSet: the fragments, numbered from 0 and in this order, of a message that fits.
fragments_of(set_id, data) ==
  [i \in DOMAIN chunks(data) |->
     [set_id |-> set_id, total_fragments |-> Len(chunks(data)),
      fragment_id |-> i - 1, body |-> chunks(data)[i]]]

\* FragmentSetReconstructor.build_message
build_message(total_fragments, bodies) ==
  FlattenSeq([i \in 1 .. total_fragments |-> bodies[i - 1]])

\* Assigning to a key of a dict.
put(dict, key, value) == [k \in DOMAIN dict \cup {key} |-> IF k = key THEN value ELSE dict[k]]

\* Faulty variants: repeated fragments are counted again, a completed set is not deleted.
add_counting(sets, f) ==
  LET id == f.set_id
      known == IF id \in DOMAIN sets THEN sets[id] ELSE << >>
      bodies == put(known, Cardinality(DOMAIN known), f.body)
      complete == Cardinality(DOMAIN bodies) = f.total_fragments
  IN  [sets |-> IF complete THEN Restrict(sets, DOMAIN sets \ {id}) ELSE put(sets, id, bodies),
       message |-> IF complete THEN build_message(f.total_fragments, bodies) ELSE << >>]

add_keeping(sets, f) ==
  LET id == f.set_id
      bodies == put(IF id \in DOMAIN sets THEN sets[id] ELSE << >>, f.fragment_id, f.body)
      complete == Cardinality(DOMAIN bodies) = f.total_fragments
  IN  [sets |-> put(sets, id, bodies),
       message |-> IF complete THEN build_message(f.total_fragments, bodies) ELSE << >>]

(***************************************************************************)
(* MessageReconstructor.add: `sets' holds, for each set id that is open,   *)
(* the bodies received by fragment id.  A set is opened by whatever        *)
(* fragment comes first and deleted when it is complete; the message is    *)
(* empty unless it is.                                                     *)
(***************************************************************************)
add(sets, f) ==
  LET id == f.set_id
      bodies == put(IF id \in DOMAIN sets THEN sets[id] ELSE << >>, f.fragment_id, f.body)
      complete == Cardinality(DOMAIN bodies) = f.total_fragments
  IN  [sets |-> IF complete THEN Restrict(sets, DOMAIN sets \ {id}) ELSE put(sets, id, bodies),
       message |-> IF complete THEN build_message(f.total_fragments, bodies) ELSE << >>]

parse_msg_and_flag(data) == [flag |-> Head(data), msg |-> Tail(data)]
==========================================================================
