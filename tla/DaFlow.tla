------------------------------ MODULE DaFlow ------------------------------
(***************************************************************************)
(* The way of data through da/: DAEncoder cuts it into rows of chunks and  *)
(* extends them, Dispersal sends each node a column, the nodes verify and  *)
(* store what they get, and certificates, which come from a chain that     *)
(* every node reads at its own pace, tie blobs to an application's         *)
(* indexes, by which shares are read.  Columns are numbered from 1.        *)
(*                                                                         *)
(* The node and its store are those of the tests, DAVerifierWApi and       *)
(* MockStore: src/ has no others.                                          *)
(***************************************************************************)
EXTENDS Kzg, TLC

CONSTANTS
  nodes_ids,      \* DispersalSettings.nodes_ids, a sequence of numbers
  Publications,   \* what may be published: [data, column_count]; data is a sequence of chunks
  Keys,           \* Metadata: an application and an index
  MaxDispersals, MaxCertificates,  \* bounds
  Changes,        \* what may be added to a chunk on its way
  MaxFaults       \* shares that may be lost, altered or led astray on their way

ASSUME FlowAssumption ==
  /\ {MaxDispersals, MaxCertificates, MaxFaults} \subseteq Nat
  /\ nodes_ids \in Seq(Int) /\ IsInjective(nodes_ids)
  /\ 0 \in Changes /\ Changes \subseteq Int
  /\ \A p \in Publications :
       /\ p.data \in Seq(Field) /\ Len(p.data) > 0
       /\ p.column_count \in Nat \ {0} /\ 2 * p.column_count =< RootsOrder

VARIABLES
  sending,      \* Dispersal's blob_data: [shares, next], the next being the one to send
  blob_store,   \* MockStore.blob_store of each node: a share by blob id
  app_id_store, \* MockStore.app_id_store of each node: a blob id by key
  chain,        \* the BlobMetadata of certificates, in the order of the chain
  seen,         \* how many of them each node has received
  published,    \* history: [pub, blob_id, shares] of the dispersals begun
  begun, faults \* counted for the bounds
flow_vars == << sending, blob_store, app_id_store, chain, seen, published, begun, faults >>

Nodes == ToSet(nodes_ids)

\* Dispersal.__init__ sorts them.
sorted_ids == ascending(Nodes)

None == << >>
put(store, key, value) ==
  [k \in DOMAIN store \cup {key} |-> IF k = key THEN value ELSE store[k]]

---------------------------------------------------------------------------
\* Encoding and verification.

_chunkify_data(p) ==
  LET n == p.column_count
  IN  [r \in 1 .. (Len(p.data) + n - 1) \div n |->
         SubSeq(p.data, (r - 1) * n + 1, IF r * n < Len(p.data) THEN r * n ELSE Len(p.data))]

row_polynomials(p) == LET rows == _chunkify_data(p) IN [r \in DOMAIN rows |-> bytes_to_polynomial(rows[r])]

\* zip_longest fills short columns with empty chunks, which count as 0.
columns(matrix) ==
  [c \in 1 .. Max({ Len(matrix[r]) : r \in DOMAIN matrix }) |->
     [r \in DOMAIN matrix |-> IF c \in DOMAIN matrix[r] THEN matrix[r][c] ELSE 0]]

commitments_of(polys) == [r \in DOMAIN polys |-> g1_linear_combination(polys[r])]

combined(polys) == compute_combined_polynomial(polys, derive_challenge(commitments_of(polys)))

\* encode and _prepare_data: a share of each column, in their order.
shares_of(p) ==
  LET polys == row_polynomials(p)
      extended == columns([r \in DOMAIN polys |-> encode_row(polys[r], 2)])
      combined_poly == combined(polys)
  IN  [c \in { c \in DOMAIN extended : c =< 2 * p.column_count } |->
         [column |-> extended[c], column_idx |-> c,
          proof |-> generate_element_proof(ROOTS_OF_UNITY[c], combined_poly),
          row_commitments |-> commitments_of(polys)]]

\* A hash of the row commitments.
build_blob_id(row_commitments) == row_commitments
blob_id(share) == build_blob_id(share.row_commitments)

verify(share) ==
  LET h == derive_challenge(share.row_commitments)
  IN  verify_element_proof(compute_combined_evaluation(share.column, h),
                           combine_commitments(share.row_commitments, h),
                           share.proof, ROOTS_OF_UNITY[share.column_idx])

\* What a share may be on arrival: any of its chunks changed, none or all of them too.
altered(share) ==
  { [share EXCEPT !.column = [r \in DOMAIN @ |-> mod(@[r] + change[r])]] :
      change \in [DOMAIN share.column -> Changes] }

\* The commitments bind: whose commitments are the same has the same polynomials.
ASSUME BindingAssumption ==
  \A p, q \in Publications :
    commitments_of(row_polynomials(p)) = commitments_of(row_polynomials(q))
      => row_polynomials(p) = row_polynomials(q)

\* The hash is not 0.
ASSUME ChallengeAssumption ==
  \A p \in Publications : derive_challenge(commitments_of(row_polynomials(p))) \in Field \ {0}

---------------------------------------------------------------------------
FlowInit ==
  /\ sending = [shares |-> << >>, next |-> 1]
  /\ blob_store = [n \in Nodes |-> << >>]
  /\ app_id_store = [n \in Nodes |-> << >>]
  /\ chain = << >> /\ seen = [n \in Nodes |-> 0]
  /\ published = {}
  /\ begun = 0 /\ faults = 0

\* Sorted nodes and shares go in pairs, and the longer list is cut off.
pairs_left == sending.next \in DOMAIN sending.shares \cap DOMAIN nodes_ids

disperse(p) ==
  /\ ~ pairs_left /\ begun < MaxDispersals
  /\ \E shares \in {shares_of(p)} :
       /\ sending' = [shares |-> shares, next |-> 1]
       /\ published' = published \cup
            {[pub |-> p, shares |-> shares,
              blob_id |-> build_blob_id(commitments_of(row_polynomials(p)))]}
  /\ begun' = begun + 1
  /\ UNCHANGED << blob_store, app_id_store, chain, seen, faults >>

\* Faulty variant: stored before it is verified.
receive_blob_early(n, share) ==
  blob_store' = [blob_store EXCEPT ![n] = put(@, blob_id(share), share)]

receive_blob(n, share) ==
  blob_store' = IF verify(share)
                  THEN [blob_store EXCEPT ![n] = put(@, blob_id(share), share)]
                  ELSE blob_store

\* A share is lost, or arrives anywhere, altered in any way.
go_astray(share) ==
  /\ faults < MaxFaults
  /\ faults' = faults + 1
  /\ blob_store' = blob_store \/ \E n \in Nodes, a \in altered(share) : receive_blob(n, a)

\* Faulty variant: the first share that is not stored ends the dispersal.
send_and_await_response_or_stop ==
  /\ pairs_left
  /\ LET n == sorted_ids[sending.next]
         share == sending.shares[sending.next]
     IN  \/ /\ receive_blob(n, share)
            /\ sending' = IF verify(share) THEN [sending EXCEPT !.next = @ + 1]
                          ELSE [sending EXCEPT !.shares = << >>]
            /\ UNCHANGED faults
         \/ go_astray(share) /\ sending' = [sending EXCEPT !.shares = << >>]
  /\ UNCHANGED << app_id_store, chain, seen, published, begun >>

\* The next share is sent; whatever the response is, the one after it is next.
send_and_await_response ==
  /\ pairs_left
  /\ sending' = [sending EXCEPT !.next = @ + 1]
  /\ LET n == sorted_ids[sending.next]
         share == sending.shares[sending.next]
     IN  \/ receive_blob(n, share) /\ UNCHANGED faults
         \/ go_astray(share)
  /\ UNCHANGED << app_id_store, chain, seen, published, begun >>

\* A block certifies a blob for a key, whether or not an earlier one did for the same key.
certify ==
  /\ Len(chain) < MaxCertificates
  /\ \E b \in published, key \in Keys : chain' = Append(chain, [blob_id |-> b.blob_id, key |-> key])
  /\ UNCHANGED << sending, blob_store, app_id_store, seen, published, begun, faults >>

\* Faulty variant: a written index is written again.
add_again(n, id, key) == app_id_store' = [app_id_store EXCEPT ![n] = put(@, key, id)]

\* DAApi.write, MockStore.add: ValueError when the index is written.
add(n, id, key) ==
  app_id_store' = IF key \in DOMAIN app_id_store[n] THEN app_id_store
                  ELSE [app_id_store EXCEPT ![n] = put(@, key, id)]

receive_metadata(n) ==
  /\ seen[n] < Len(chain)
  /\ add(n, chain[seen[n] + 1].blob_id, chain[seen[n] + 1].key)
  /\ seen' = [seen EXCEPT ![n] = @ + 1]
  /\ UNCHANGED << sending, blob_store, chain, published, begun, faults >>

FlowNext ==
  \/ \E p \in Publications : disperse(p)
  \/ send_and_await_response
  \/ certify
  \/ \E n \in Nodes : receive_metadata(n)

FlowSpec == FlowInit /\ [][FlowNext]_flow_vars

\* A dispersal's loop goes on, and every node goes on reading the chain.
FairFlowSpec ==
  /\ FlowSpec
  /\ WF_flow_vars(send_and_await_response)
  /\ \A n \in Nodes : WF_flow_vars(receive_metadata(n))

\* DAApi.read, MockStore.get_multiple, for one of the indexes asked for.
read(n, key) ==
  IF key \in DOMAIN app_id_store[n] /\ app_id_store[n][key] \in DOMAIN blob_store[n]
    THEN blob_store[n][app_id_store[n][key]] ELSE None

---------------------------------------------------------------------------
\* Properties.

whole_rows(p) == Len(p.data) % p.column_count = 0

\* The quotient of f by x - u has a coefficient 0 below one that is not.
gap(f, u) ==
  LET q(j) == sum_of([i \in j + 1 .. Len(f) |-> f[i] * pow(u, i - j - 1)])
  IN  \E j, k \in 1 .. Len(f) - 1 : j < k /\ q(j) = 0 /\ q(k) # 0

accepted_unless_gap(b) ==
  LET f == combined(row_polynomials(b.pub))
  IN  \A c \in DOMAIN b.shares : gap(f, ROOTS_OF_UNITY[c]) \/ verify(b.shares[c])

fk20_agrees(f) ==
  LET proofs == fk20_generate_proofs(f)
      roots == compute_roots_of_unity(Len(f))
  IN  \A i \in DOMAIN roots :
        /\ verify_element_proof(eval(f, roots[i]), g1_linear_combination(f), proofs[i], roots[i])
        /\ gap(f, roots[i]) \/ proofs[i] = generate_element_proof(roots[i], f)

(***************************************************************************)
(* A share of whole rows is accepted by its node, unless the division of   *)
(* the combined polynomial has a gap: `divide' then drops the coefficient  *)
(* and the proof is of something else.  The batch of proofs that FK20      *)
(* makes of a row with four Fourier transforms holds the proofs that       *)
(* generate_element_proof makes one by one, gaps apart, and all of it      *)
(* verifies.                                                               *)
(***************************************************************************)
ProofsUnlessGap ==
  [][\A b \in published' \ published :
       /\ whole_rows(b.pub) => accepted_unless_gap(b)
       /\ \A f \in ToSet(row_polynomials(b.pub)) : Len(f) \in {2, 4} => fk20_agrees(f)]_flow_vars

\* The chunks of a share that are not those of the share that was sent.
changed(sent, share) == { r \in DOMAIN sent.column : share.column[r] # sent.column[r] }

(***************************************************************************)
(* Whatever arrives where, a node stores under a blob's id a share of that *)
(* blob only, with the proof of the share's own column, and never one that *)
(* had a single chunk changed when it would have verified.  It may be      *)
(* another node's column, and one in which two changes make up for each    *)
(* other: the challenge does not depend on the chunks.                     *)
(***************************************************************************)
StoredAsSent ==
  \A n \in Nodes : \A id \in DOMAIN blob_store[n] :
    LET share == blob_store[n][id]
    IN  \E b \in published :
          /\ b.blob_id = id /\ share.column_idx \in DOMAIN b.shares
          /\ LET sent == b.shares[share.column_idx]
             IN  /\ share = [sent EXCEPT !.column = share.column]
                 /\ Cardinality(changed(sent, share)) = 1 => ~ verify(sent)

\* The certificates that a node has seen for a key.
certificates(n, key) == { i \in 1 .. seen[n] : chain[i].key = key }

(***************************************************************************)
(* Whatever was certified twice and however far a node has read: an index  *)
(* is written at a node when it has seen a certificate for it, and for the *)
(* blob of the first one.                                                  *)
(***************************************************************************)
IndexesFollowTheChain ==
  \A n \in Nodes, key \in Keys :
    /\ key \in DOMAIN app_id_store[n] <=> certificates(n, key) # {}
    /\ \A i \in certificates(n, key) :
         (\A j \in certificates(n, key) : i =< j) => app_id_store[n][key] = chain[i].blob_id

certified(b, key) ==
  \E i \in DOMAIN chain :
    /\ chain[i] = [blob_id |-> b.blob_id, key |-> key]
    /\ \A j \in 1 .. i - 1 : chain[j].key # key

answers(key) == { n \in Nodes : read(n, key) # None }

recovered(p, N, key) ==
  LET row(r) == [c \in { read(n, key).column_idx : n \in N } |->
                   (CHOOSE s \in { read(n, key) : n \in N } : s.column_idx = c).column[r]]
  IN  FlattenSeq([r \in 1 .. Len(p.data) \div p.column_count |->
                    SubSeq(encode_row(decode(row(r), p.column_count), 1), 1, p.column_count)])

\* A share as it was sent, or one that would have verified, with a single chunk changed.
nearly_sent(share) ==
  \E b \in published :
    /\ b.blob_id = blob_id(share) /\ share.column_idx \in DOMAIN b.shares
    /\ LET sent == b.shares[share.column_idx]
       IN  \/ changed(sent, share) = {}
           \/ Cardinality(changed(sent, share)) = 1 /\ verify(sent)

\* Nodes with different columns of such shares.
complementary(N, key) ==
  /\ \A n \in N : nearly_sent(read(n, key))
  /\ \A m, n \in N : read(m, key).column_idx = read(n, key).column_idx => m = n

(***************************************************************************)
(* Any column_count nodes that answer for a key, with different columns in *)
(* no more than one chunk of which anything was changed on the way, give   *)
(* back together the data that the chain certified first for the key,      *)
(* however far each node has read, wherever the shares were led and        *)
(* whatever was dispersed or certified besides.                            *)
(***************************************************************************)
ReadsDecode ==
  \A b \in published, key \in Keys :
    certified(b, key) /\ whole_rows(b.pub) =>
      \A N \in kSubset(b.pub.column_count, answers(key)) :
        complementary(N, key) => recovered(b.pub, N, key) = b.pub.data

\* The shares of a publication that are sent to a node, and verify.
sent_shares ==
  [p \in Publications |->
     LET shares == shares_of(p)
         f == combined(row_polynomials(p))
     IN  { shares[c] : c \in { c \in DOMAIN shares \cap DOMAIN nodes_ids : ~ gap(f, ROOTS_OF_UNITY[c]) } }]

(***************************************************************************)
(* Of certified data, sooner or later, every share can be read that was    *)
(* sent, just as it was, but for two with each that went astray: this one, *)
(* and the one that the node had in which it ended up.                     *)
(***************************************************************************)
ReadableInTheEnd ==
  \A p \in { p \in Publications : whole_rows(p) }, key \in Keys :
    (\E b \in published : b.pub = p /\ certified(b, key))
      ~> LET read_shares == { read(n, key) : n \in answers(key) } \cap sent_shares[p]
         IN  Cardinality(read_shares) + 2 * faults >= Cardinality(sent_shares[p])
==========================================================================
