----------------------------- MODULE WormChain -----------------------------
(***************************************************************************)
(* The hash-linked record chain of hyperkitty-worm: append, verify, and    *)
(* the binary form of a record.  The hash is an injective term; the bytes  *)
(* of a record are its header's fields and the concatenated payload, whose *)
(* three parts only the header's lengths tell apart.  The event length has *)
(* 16 bits, the other two have 32, and a length beyond them is cut.        *)
(***************************************************************************)
EXTENDS Naturals, Sequences, SequencesExt

CONSTANTS EventModulus, \* 2^16 in the code
          PartModulus,  \* 2^32 in the code
          Events,       \* byte strings for the event type
          Parts,        \* byte strings for data and metadata
          Times,        \* timestamps
          MaxChain      \* bound on the records
ASSUME ChainBounds ==
  /\ EventModulus \in Nat \ {0} /\ PartModulus \in Nat \ {0} /\ MaxChain \in Nat
  /\ \A bytes \in Events \cup Parts : bytes \in Seq({bytes[i] : i \in DOMAIN bytes})

VARIABLES original, \* what was appended
          records   \* Chain.records, perhaps tampered with since, or reloaded
chainVars == <<original, records>>

hash_sha256(bytes) == <<"sha256", bytes>>
Genesis == <<"zeroes">>

Content(r) == r.event \o r.data \o r.metadata
\* HEADER_SIZE bytes and the payload.
to_bytes(r) == [header |-> r.header, payload |-> Content(r)]

\* Constants of the header: magic and version; flags and signature stay zero.
Header(event, data, metadata, time, previous) ==
  [magic |-> "WORM", event_length |-> Len(event) % EventModulus,
   data_length |-> Len(data) % PartModulus, metadata_length |-> Len(metadata) % PartModulus,
   timestamp_ns |-> time, previous_hash |-> previous,
   content_hash |-> hash_sha256(event \o data \o metadata)]

\* Mutant: the link covers the content of the last record but not its header.
X_LinkTo(chain) == IF chain = <<>> THEN Genesis ELSE Last(chain).header.content_hash
LinkTo(chain) == IF chain = <<>> THEN Genesis ELSE hash_sha256(to_bytes(Last(chain)))
Record(chain, event, data, metadata, time) ==
  [header |-> Header(event, data, metadata, time, LinkTo(chain)),
   event |-> event, data |-> data, metadata |-> metadata]

\* TamperDetected is FALSE.
verify(chain) ==
  \A i \in DOMAIN chain :
    /\ chain[i].header.previous_hash = LinkTo(SubSeq(chain, 1, i - 1))
    /\ chain[i].header.content_hash = hash_sha256(Content(chain[i]))

\* A record read back: the lengths of the header cut the payload, what lies
\* behind them is not looked at, and too short a payload is an error: no record.
from_bytes(bytes) ==
  LET e == bytes.header.event_length
      d == e + bytes.header.data_length
      m == d + bytes.header.metadata_length
  IN IF bytes.header.magic # "WORM" \/ Len(bytes.payload) < m THEN {}
     ELSE {[header |-> bytes.header, event |-> SubSeq(bytes.payload, 1, e),
            data |-> SubSeq(bytes.payload, e + 1, d), metadata |-> SubSeq(bytes.payload, d + 1, m)]}

ChainInit == original = <<>> /\ records = <<>>

Chain_append ==
  /\ records = original /\ Len(records) < MaxChain
  /\ \E e \in Events, d, m \in Parts, t \in Times :
       records' = Append(records, Record(records, e, d, m, t))
  /\ original' = records'
Chain_reload ==
  /\ \A i \in DOMAIN records : from_bytes(to_bytes(records[i])) # {}
  /\ records' = [i \in DOMAIN records |-> CHOOSE r \in from_bytes(to_bytes(records[i])) : TRUE]
  /\ UNCHANGED original

\* records is public, and the bytes lie on a disk.  Whoever changes them may
\* also put the hashes right again, of this record or of all that follow.
Rebuilt(prefix, rest) ==
  FoldLeft(LAMBDA done, r : Append(done,
             Record(done, r.event, r.data, r.metadata, r.header.timestamp_ns)), prefix, rest)
Tamper ==
  /\ records = original
  /\ \E i \in DOMAIN records, t \in Times, e \in Events, d \in Parts :
       LET r  == records[i]
           r2 == [r EXCEPT !.event = e, !.data = d, !.header.timestamp_ns = t]
           edits == {ReplaceAt(records, i, r2),
                     ReplaceAt(records, i, [r2 EXCEPT !.header.content_hash = hash_sha256(Content(r2))]),
                     Rebuilt(SubSeq(records, 1, i - 1), <<r2>> \o SubSeq(records, i + 1, Len(records))),
                     RemoveAt(records, i)}
       IN records' \in edits
  /\ UNCHANGED original

ChainNext == Chain_append \/ Chain_reload \/ Tamper
ChainSpec == ChainInit /\ [][ChainNext]_chainVars

(***************************************************************************)
(* Property                                                                *)
(***************************************************************************)

\* Each part is as short as its length field can say.
PartsFit(r) ==
  /\ Len(r.event) < EventModulus
  /\ Len(r.data) < PartModulus /\ Len(r.metadata) < PartModulus
Bytes(chain) == [i \in DOMAIN chain |-> to_bytes(chain[i])]

\* Whoever holds the bytes of the last record holds the chain: a chain that
\* verifies and ends in the same bytes is the original, record by record, in
\* number and order, however it was changed and rehashed.  An untouched chain
\* verifies; and a record survives being written and read back exactly when
\* each of its three parts is as short as its length field can say, for otherwise
\* the honest record comes back with its parts cut elsewhere.
LastRecordSealsTheChain ==
  /\ verify(original)
  /\ records # <<>> /\ original # <<>> /\ verify(records)
     /\ to_bytes(Last(records)) = to_bytes(Last(original)) => Bytes(records) = Bytes(original)
  /\ \A i \in DOMAIN original :
       from_bytes(to_bytes(original[i])) = {original[i]} <=> PartsFit(original[i])
=============================================================================
