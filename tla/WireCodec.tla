----------------------------- MODULE WireCodec -----------------------------
(***************************************************************************)
(* The wire text of a bus message, hk_msg_encode and hk_msg_decode.  A     *)
(* text is a sequence of characters, a word that is a key counting as one; *)
(* values are written as they are and looked for by their key.             *)
(***************************************************************************)
EXTENDS Naturals, Sequences, FiniteSetsExt, SequencesExt

CONSTANTS Messages,  \* [type, from, to, topic, corr, body], each a text; corr in digits
          OutSizes,  \* sizes of the buffer a message is encoded into
          HeadSize,  \* sizeof the fields, one longer than what they hold
          BodySize
ASSUME WireAssumption ==
  /\ {HeadSize, BodySize} \cup OutSizes \subseteq Nat \ {0}
  /\ \A m \in Messages :
       /\ m.corr \in Seq({"0", "7", "8"}) \ {<<>>}
       /\ m.body \in Seq(ToSet(m.body)) /\ Len(m.body) < BodySize
       /\ \A f \in {"type", "from", "to", "topic"} : m[f] \in Seq(ToSet(m[f])) /\ Len(m[f]) < HeadSize

VARIABLES sent,     \* the message encoded last
          wire,     \* the text in the buffer
          received  \* what it was decoded to
wireVars == <<sent, wire, received>>

Heads    == {"type", "from", "to", "topic"}
Numerals == {"0", "7", "8"}
NoBytes  == [type |-> <<>>, from |-> <<>>, to |-> <<>>, topic |-> <<>>, corr |-> <<"0">>, body |-> <<>>]

KeyOf(key)  == <<"quote", key, "quote", ":">>
Quoted(key, value) == KeyOf(key) \o <<"quote">> \o value \o <<"quote">>
WireText(m) ==
  <<"{">> \o Quoted("type", m.type) \o <<",">> \o Quoted("from", m.from) \o <<",">>
          \o Quoted("to", m.to) \o <<",">> \o Quoted("topic", m.topic) \o <<",">>
          \o KeyOf("corr") \o m.corr \o <<",">> \o Quoted("body", m.body) \o <<"}">>

\* strstr and strchr: the first place, or 0.
FirstOf(places) == IF places = {} THEN 0 ELSE Min(places)
Find(text, needle) ==
  FirstOf({k \in DOMAIN text : IsPrefix(needle, SubSeq(text, k, Len(text)))})
NextQuote(text, i) == FirstOf({k \in i .. Len(text) : text[k] = "quote"})
CutTo(size, value) == SubSeq(value, 1, Min({Len(value), size - 1}))

\* The end of the data is behind place len, though the text may go on.
extract_str(text, len, key) ==
  LET at      == Find(text, KeyOf(key) \o <<"quote">>)
      closing == NextQuote(text, at + 5)
  IN IF at = 0 \/ at > len \/ closing = 0 \/ closing > len THEN <<>>
     ELSE CutTo(HeadSize, SubSeq(text, at + 5, closing - 1))
extract_u64(text, len, key) ==
  LET at   == Find(text, KeyOf(key))
      stop == Min({k \in at + 4 .. Len(text) + 1 : k > Len(text) \/ text[k] \notin Numerals})
  IN IF at = 0 \/ at > len \/ stop = at + 4 THEN <<"0">> ELSE SubSeq(text, at + 4, stop - 1)

\* Mutant: the body ends at its first quote.
X_BodyEnd(text, len, start) ==
  Min({k \in start .. Len(text) + 1 : k > len \/ k > Len(text) \/ text[k] = "quote"} \cup {Len(text) + 1})
\* A quote behind a backslash is skipped with it, whatever is before the backslash.
BodyEnd(text, len, start) ==
  LET scan[i \in Nat] ==
        CASE i > len \/ i > Len(text) -> i
          [] i <= len /\ i < Len(text) /\ text[i] = "\\" /\ text[i + 1] = "quote" -> scan[i + 2]
          [] i <= len /\ i <= Len(text) /\ text[i] = "quote" -> i
          [] OTHER -> scan[i + 1]
  IN scan[start]
extract_body(text, len) ==
  LET at == Find(text, KeyOf("body") \o <<"quote">>)
  IN IF at = 0 \/ at > len THEN <<>>
     ELSE CutTo(BodySize, SubSeq(text, at + 5, BodyEnd(text, len, at + 5) - 1))

NotYet == [len |-> 0, message |-> NoBytes]
WireInit == sent = NoBytes /\ wire = <<>> /\ received = NotYet
\* snprintf keeps what fits with its terminator, and returns the full length.
hk_msg_encode(m, sz) ==
  /\ wire = <<>> /\ received = NotYet
  /\ sent' = m /\ wire' = CutTo(sz, WireText(m))
  /\ UNCHANGED received
hk_msg_decode(len) ==
  /\ wire # <<>> /\ received = NotYet
  /\ received' = [len |-> len, message |->
       [type |-> extract_str(wire, len, "type"), from |-> extract_str(wire, len, "from"),
        to |-> extract_str(wire, len, "to"), topic |-> extract_str(wire, len, "topic"),
        corr |-> extract_u64(wire, len, "corr"), body |-> extract_body(wire, len)]]
  /\ UNCHANGED <<sent, wire>>
\* One message: nothing is kept from one to the next.  The length a caller has
\* may be that of the text in the buffer, of a part of it, or the one returned.
WireNext == \/ \E m \in Messages, sz \in OutSizes : hk_msg_encode(m, sz)
            \/ \E len \in 1 .. Len(WireText(sent)) : hk_msg_decode(len)
WireSpec == WireInit /\ [][WireNext]_wireVars

(***************************************************************************)
(* Property                                                                *)
(***************************************************************************)

\* As long as no head field holds a quote, decoding never takes one field for
\* another: of a text that was cut, by its buffer or by the length given, each
\* head field arrives whole or not at all, and of the number a beginning.  A
\* body with a backslash before each of its quotes and none at its end arrives
\* up to the cut; of a text that arrives whole everything does, and any other
\* body comes back changed, unless the size of its field cuts it back.
SafeBody(b) == /\ \A k \in DOMAIN b : b[k] = "quote" => k > 1 /\ b[k - 1] = "\\"
               /\ b # <<>> => Last(b) # "\\"
FieldsKeepApart ==
  LET got   == received.message
      whole == wire = WireText(sent) /\ received.len = Len(wire)
  IN received # NotYet /\ (\A f \in Heads : "quote" \notin ToSet(sent[f])) =>
       /\ \A f \in Heads : got[f] = sent[f] \/ (got[f] = <<>> /\ ~whole)
       /\ \/ got.corr = sent.corr
          \/ ~whole /\ (IsPrefix(got.corr, sent.corr) \/ got.corr = <<"0">>)
       /\ SafeBody(sent.body) => IsPrefix(got.body, sent.body)
       /\ whole /\ Len(sent.body) < BodySize - 1 => (got.body = sent.body <=> SafeBody(sent.body))
=============================================================================
