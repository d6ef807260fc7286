------------------------------ MODULE VlcFrame ------------------------------
(***************************************************************************)
(* One frame on its way over the light, from the transmit driver's copy of *)
(* it to the node's process queue:                                         *)
(*                                                                         *)
(*   write_packet_to_pru_memory --> light --> pru_phy_decoding --> mac_rx  *)
(*     (adds the parity)          (errors)    (decodes, labels)      |     *)
(*                                                                   v     *)
(*                                     process_queue <-- receive_vlc       *)
(*                                                                         *)
(* A block is a whole frame: it has at most 160 bytes and block_size is    *)
(* 200.  Of the frame the model keeps the two fields something depends on, *)
(* the destination node_id and the sequence number, each one symbol of the *)
(* code, and the first four bytes of the payload, where pru_phy_decoding   *)
(* stores the number of errors.  The length is outside the model: the PRU  *)
(* drops a frame whose length is not the one it expects.                   *)
(*                                                                         *)
(* The module extends ReedSolomon and so composes the real encoder and the *)
(* real decoder, on a smaller field, with what the drivers do around them. *)
(***************************************************************************)
EXTENDS ReedSolomon

CONSTANTS
  SELF_ID,               \* the node this receiver is
  RS_ERROR_ID,           \* error_node_id: label of a frame with errors
  DUMMY_PACKET_NODE_ID,  \* destination of the transmit driver's dummies
  OtherNodes,            \* the other nodes the transmitter serves
  DataSeqs,              \* sequence numbers of data frames
  DummySeq,              \* the sequence number of vlc_q_pkt (100)
  SentPayload,           \* first payload bytes of every frame, as an unsigned
  MaxErrors,             \* bound: symbols of a frame the light changes
  INT_BITS               \* bits of an int

\* The error label and the dummies' destination are the number of no node; an
\* int holds every number of errors.  The last conjunct is true of every
\* INT_BITS: the provers, which do not calculate powers, need to be told.
ASSUME FrameAssumption ==
  /\ {SELF_ID, RS_ERROR_ID, DUMMY_PACKET_NODE_ID} \cup OtherNodes
       \subseteq Symbol
  /\ DUMMY_PACKET_NODE_ID \notin {SELF_ID, RS_ERROR_ID} \cup OtherNodes
  /\ {SELF_ID, RS_ERROR_ID} \cap OtherNodes = {}
  /\ DataSeqs \cup {DummySeq} \subseteq Symbol
  /\ MaxErrors \in Nat /\ 2 + NROOTS <= NN
  /\ INT_BITS \in Nat \ {0} /\ SentPayload \in 0 .. 2^INT_BITS - 1
  /\ EBADMSG < 2^(INT_BITS - 1) /\ NROOTS < 2^(INT_BITS - 1)
  /\ 2^INT_BITS = 2 * 2^(INT_BITS - 1)

VARIABLES
  stage,    \* who has the frame: "tx", "light", "driver", "node"
  sent,     \* the data symbols the frame was sent with
  word,     \* the received word: data and parity
  errors,   \* how many symbols of it the light changed
  decoded,  \* what decode_rs8 made of it
  skb,      \* the frame mac_rx hands to the stack
  verdict   \* what receive_vlc did with the frame before

frame_vars == <<stage, sent, word, errors, decoded, skb, verdict>>

\* What receive_vlc can do with a frame: the sequence number it pushes, if
\* any, and what it adds to rs_error_bytes and to uncorrected_bytes.
Ignored == [queued |-> FALSE, seq |-> 0, corrected |-> 0, uncorrected |-> 0]

NoSkb     == [node_id |-> 0, seq |-> 0, payload |-> 0]
NoDecode  == [count |-> 0, data |-> << >>]

\* The dummies go to DUMMY_PACKET_NODE_ID with one sequence number, data
\* frames to the nodes.
Frames == ({SELF_ID} \cup OtherNodes) \X DataSeqs
            \cup {<<DUMMY_PACKET_NODE_ID, DummySeq>>}

FrameInit ==
  /\ stage = "tx" /\ sent = << >> /\ word = << >> /\ errors = 0
  /\ decoded = NoDecode /\ skb = NoSkb /\ verdict = Ignored

\* write_packet_to_pru_memory: the parity is appended to the frame.
write_packet_to_pru_memory(frame) ==
  /\ stage = "tx"
  /\ stage' = "light"
  /\ sent' = frame
  /\ word' = frame \o encode_rs8(frame)
  /\ errors' = 0 /\ decoded' = NoDecode /\ skb' = NoSkb
  /\ verdict' = Ignored

\* External: the light changes a set of symbols of the frame or its parity,
\* possibly none.
Light ==
  /\ stage = "light"
  /\ stage' = "driver"
  /\ \E hit \in {S \in SUBSET (1 .. Len(sent) + NROOTS) :
                    Cardinality(S) <= MaxErrors} :
       /\ errors' = Cardinality(hit)
       /\ \E e \in [hit -> 1 .. NN] :
            word' = [k \in DOMAIN word |->
                      IF k \in hit THEN Xor(word[k], e[k]) ELSE word[k]]
  /\ UNCHANGED <<sent, decoded, skb, verdict>>

\* The conversions num_err and the payload go through.
AsUnsigned(n) == n % 2^INT_BITS
AsInt(u) == IF u >= 2^(INT_BITS - 1) THEN u - 2^INT_BITS ELSE u

\* Mutant of Label: the sign bit of the number of errors is lost.
LabelTruncated(d) ==
  LET total_num_err == AsUnsigned(d.count) % 2^(INT_BITS - 1)
  IN  [node_id |-> IF total_num_err > 0 /\ d.data[1] # DUMMY_PACKET_NODE_ID
                   THEN RS_ERROR_ID ELSE d.data[1],
       seq |-> d.data[2],
       payload |-> IF total_num_err > 0 THEN total_num_err ELSE SentPayload]

\* Mutant of Label: a dummy with errors is labelled like any other frame.
LabelDummies(d) ==
  LET total_num_err == AsUnsigned(d.count)
  IN  [node_id |-> IF total_num_err > 0 THEN RS_ERROR_ID ELSE d.data[1],
       seq |-> d.data[2],
       payload |-> IF total_num_err > 0 THEN total_num_err ELSE SentPayload]

\* What pru_phy_decoding makes of the decoder's answer.  num_err is unsigned
\* and never below 0, so -EBADMSG is a number of errors like the others.  A
\* frame with errors that is no dummy loses its destination, and its first
\* payload bytes become the number.
Label(d) ==
  LET total_num_err == AsUnsigned(d.count)
  IN  [node_id |-> IF total_num_err > 0 /\ d.data[1] # DUMMY_PACKET_NODE_ID
                   THEN RS_ERROR_ID ELSE d.data[1],
       seq |-> d.data[2],
       payload |-> IF total_num_err > 0 THEN total_num_err ELSE SentPayload]

pru_phy_decoding ==
  /\ stage = "driver"
  /\ stage' = "node"
  /\ decoded' = decode_rs8(SubSeq(word, 1, Len(sent)),
                           SubSeq(word, Len(sent) + 1, Len(word)))
  /\ skb' = Label(decoded')
  /\ UNCHANGED <<sent, word, errors, verdict>>

\* A frame of this node or with the error label is pushed; the payload of
\* the latter is read back as an int.
Verdict(f) ==
  LET curr_num_error == IF f.node_id = RS_ERROR_ID THEN AsInt(f.payload) ELSE 0
  IN  IF f.node_id \notin {SELF_ID, RS_ERROR_ID} THEN Ignored
      ELSE [queued |-> TRUE, seq |-> f.seq,
            corrected |-> IF curr_num_error >= 0 THEN curr_num_error ELSE 0,
            uncorrected |-> IF curr_num_error < 0 THEN 0 - curr_num_error
                                                  ELSE 0]

receive_vlc ==
  /\ stage = "node"
  /\ stage' = "tx"
  /\ verdict' = Verdict(skb)
  /\ UNCHANGED <<sent, word, errors, decoded, skb>>

FrameNext == \/ \E frame \in Frames : write_packet_to_pru_memory(frame)
        \/ Light \/ pru_phy_decoding \/ receive_vlc

FrameSpec == FrameInit /\ [][FrameNext]_frame_vars
-----------------------------------------------------------------------------
(* Properties.                                                             *)

WithinReach == errors <= NROOTS \div 2

\* The decoder undoes what the encoder's parity was made for: with at most
\* NROOTS / 2 symbols changed, wherever they are, decode_rs8 restores the
\* data and returns how many were wrong, also for a shortened code.
CorrectsWithinReach ==
  stage = "node" /\ WithinReach =>
    decoded.count = errors /\ decoded.data = sent

\* Whatever the light did, decode_rs8 stays inside its arrays: it finds no
\* more roots than the NROOTS entries of root[] and loc[] hold, and the
\* error locator has no more than deg_lambda roots.
DecodeInBounds ==
  stage = "node" =>
    LET lambda == BerlekampMassey(Syndromes(word))
    IN  Cardinality(Roots(lambda, Degree(lambda))) <= Degree(lambda)

\* Which frames reach process_queue when the code can repair them: those of
\* this node, and those of the other nodes that had errors (their label hides
\* the destination); never a dummy; always with the number they were sent with.
DeliveredExactly ==
  stage = "tx" /\ sent # << >> /\ WithinReach =>
    /\ verdict.queued = (\/ sent[1] = SELF_ID
                         \/ sent[1] # DUMMY_PACKET_NODE_ID /\ errors > 0)
    /\ verdict.queued => verdict.seq = sent[2]

\* A frame the decoder gave up on is counted as uncorrected, and as nothing
\* else, although its number of errors travels through an unsigned variable
\* and the payload; a repaired one is counted with its number of errors.  The
\* frame whose destination was changed into the error label without the
\* decoder noticing is excepted: the sender's payload is then read as the
\* number.
ErrorsAccounted ==
  /\ stage = "tx" /\ verdict.queued
  /\ decoded.count # 0 \/ decoded.data[1] # RS_ERROR_ID
  => IF decoded.count < 0
     THEN verdict.uncorrected = EBADMSG /\ verdict.corrected = 0
     ELSE verdict.uncorrected = 0 /\ verdict.corrected = decoded.count
=============================================================================
