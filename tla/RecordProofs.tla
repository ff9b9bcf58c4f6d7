---------------------------- MODULE RecordProofs ----------------------------
(***************************************************************************)
(* What the records of the system remember, for every value of the         *)
(* constants: the WORM file of the C code, the WORM chain of the crates,   *)
(* the history of ticks, the receipts of pictures, the objects of          *)
(* continuity and magma, and the text of a message on the wire.            *)
(***************************************************************************)
EXTENDS WormStore, WormChain, RuntimeTicks, ArtReceipts, Continuity, WireCodec,
        InductionLemmas, SequenceTheorems

(***************************************************************************)
(* The WORM file store.                                                    *)
(***************************************************************************)

Bits == UNION ContentHashes

Entry == [id : Nat, sequence : Nat, content_hash : ContentHashes,
          prev_hash : SUBSET Bits, chain_hash : SUBSET Bits, parts : PartsLeft]

\* What reading keeps of the entries es, place by place.
Keeps(u, es, fate) ==
  /\ u \in [0 .. Len(es) -> Seq(Entry)] /\ u[0] = <<>>
  /\ \A n \in 1 .. Len(es) :
       u[n] = IF Len(u[n - 1]) = MaxRead \/ fate[n] = "skipped" THEN u[n - 1]
              ELSE Append(u[n - 1], Reloaded(es[n], fate[n]))

Grows(es) == \A i, j \in 1 .. Len(es) : i < j => es[i].id < es[j].id

LEMMA ReloadedIs ==
  ASSUME NEW e \in Entry, NEW fate \in Fates
  PROVE  /\ Reloaded(e, fate) \in Entry /\ IsCopy(Reloaded(e, fate), e)
         /\ Reloaded(e, fate).sequence = 0 /\ Reloaded(e, fate).chain_hash = Zero
<1>1. Zero \in SUBSET Bits
  BY DEF Zero
<1> QED
  BY <1>1 DEF Reloaded, Entry, IsCopy, PartsLeft

LEMMA ReadKeeps ==
  ASSUME NEW f \in [entries : Seq(Entry), torn : BOOLEAN],
         NEW fate \in [DOMAIN f.entries -> Fates]
  PROVE  \E u : Keeps(u, f.entries, fate) /\ hk_worm_read_file(f, fate) = u[Len(f.entries)]
<1> DEFINE es == f.entries
           K  == Len(es)
           V(v) == v = [n \in 0 .. Len(f.entries) |->
                          IF n = 0 THEN <<>>
                          ELSE IF Len(v[n - 1]) = MaxRead \/ fate[n] = "skipped" THEN v[n - 1]
                          ELSE Append(v[n - 1], Reloaded(f.entries[n], fate[n]))]
           u == CHOOSE v : V(v)
<1>1. hk_worm_read_file(f, fate) = u[Len(f.entries)]
  BY Zenon DEF hk_worm_read_file
<1>2. /\ K \in Nat /\ \A n \in 1 .. K : Reloaded(es[n], fate[n]) \in Entry
      /\ \A n \in 1 .. K : f.entries[n] = es[n]
  <2>1. es \in Seq(Entry) /\ K \in Nat /\ DOMAIN es = 1 .. K
    OBVIOUS
  <2>2. \A n \in 1 .. K : es[n] \in Entry /\ fate[n] \in Fates
    BY <2>1
  <2> HIDE DEF es, K
  <2>3. \A n \in 1 .. K : Reloaded(es[n], fate[n]) \in Entry
    BY <2>2, ReloadedIs
  <2> QED BY <2>1, <2>3 DEF es
<1> DEFINE D == Seq(Entry)
           G == [n \in 1 .. K |-> [x \in D |-> IF Len(x) = MaxRead \/ fate[n] = "skipped" THEN x
                                               ELSE Append(x, Reloaded(es[n], fate[n]))]]
<1>3. \A n \in 1 .. K : \A x \in D :
        /\ G[n][x] = IF Len(x) = MaxRead \/ fate[n] = "skipped" THEN x
                     ELSE Append(x, Reloaded(es[n], fate[n]))
        /\ G[n][x] \in D
  <2> HIDE DEF es, K
  <2>1. \A n \in 1 .. K : \A x \in D : Append(x, Reloaded(es[n], fate[n])) \in D
    BY <1>2
  <2> HIDE DEF D
  <2> QED BY <2>1
<1>4. <<>> \in D
  OBVIOUS
<1> HIDE DEF G, D
<1>5. PICK g \in [0 .. K -> D] : Steps(g, K, <<>>, G)
  <2> HIDE DEF K
  <2> QED BY <1>2, <1>3, <1>4, StepsExist
<1>6. V(g)
  <2>1. \A n \in 0 .. K : n # 0 => n \in 1 .. K /\ g[n - 1] \in D
    BY <1>2
  <2>2. g = [n \in 0 .. K |-> IF n = 0 THEN <<>> ELSE G[n][g[n - 1]]]
    BY <1>5 DEF Steps
  <2> HIDE DEF es, K
  <2>3. g = [n \in 0 .. K |-> IF n = 0 THEN <<>>
                          ELSE IF Len(g[n - 1]) = MaxRead \/ fate[n] = "skipped" THEN g[n - 1]
                          ELSE Append(g[n - 1], Reloaded(es[n], fate[n]))]
    BY <1>3, <2>1, <2>2
  <2> QED BY <2>3 DEF es, K
<1>7. V(u)
  <2> HIDE DEF V
  <2> QED BY <1>6
<1> HIDE DEF u
<1>8. u = [n \in 0 .. K |-> IF n = 0 THEN <<>>
                          ELSE IF Len(u[n - 1]) = MaxRead \/ fate[n] = "skipped" THEN u[n - 1]
                          ELSE Append(u[n - 1], Reloaded(es[n], fate[n]))]
  BY <1>7
<1> HIDE DEF V, es, K
<1> DEFINE W(x, n) == IF Len(x) = MaxRead \/ fate[n] = "skipped" THEN x
                      ELSE Append(x, Reloaded(es[n], fate[n]))
           S == {n \in 0 .. K : u[n] \in D}
<1>9. u = [n \in 0 .. K |-> IF n = 0 THEN <<>> ELSE W(u[n - 1], n)]
  BY <1>8
<1>10. \A n \in 1 .. K : \A x \in D : W(x, n) \in D
  BY <1>3
<1> HIDE DEF W
<1>11. 0 \in S
  BY <1>2, <1>4, <1>8
<1>12. ASSUME NEW n \in 0 .. K - 1, n \in S PROVE n + 1 \in S
  <2>1. n + 1 \in 0 .. K /\ n + 1 # 0 /\ n + 1 - 1 = n /\ n + 1 \in 1 .. K
    BY <1>2
  <2>2. u[n + 1] = W(u[n], n + 1)
    <3> DEFINE F == [k \in 0 .. K |-> IF k = 0 THEN <<>> ELSE W(u[k - 1], k)]
    <3>1. F[n + 1] = W(u[n], n + 1)
      BY <2>1
    <3>2. u = F
      BY <1>9
    <3> HIDE DEF F
    <3> QED BY <3>1, <3>2
  <2>3. u[n + 1] \in D
    BY <1>10, <1>12, <2>1, <2>2
  <2> QED BY <2>1, <2>3
<1>13. \A n \in 0 .. K : n \in S
  <2> HIDE DEF S
  <2> QED BY <1>2, <1>11, <1>12, UpTo
<1>14. (\A n \in 1 .. K : u[n] = W(u[n - 1], n)) /\ u[0] = <<>>
  <2>1. \A n \in 1 .. K : n \in 0 .. K /\ n # 0
    BY <1>2
  <2> QED BY <1>2, <1>9, <2>1
<1>15. u \in [0 .. K -> D]
  <2>1. DOMAIN u = 0 .. K /\ u = [n \in 0 .. K |-> u[n]]
    BY <1>9
  <2> QED BY <1>13, <2>1
<1> QED BY <1>1, <1>14, <1>15 DEF Keeps, es, K, D, W

\* What a read gives of a file: some of its entries, in their order; the first
\* of them, all there, if nothing fails.
LEMMA ReadFacts ==
  ASSUME NEW f \in [entries : Seq(Entry), torn : BOOLEAN],
         NEW fate \in [DOMAIN f.entries -> Fates]
  PROVE  LET r  == hk_worm_read_file(f, fate)
             es == f.entries
         IN
         /\ r \in Seq(Entry) /\ Len(r) <= MaxRead
         /\ \A i \in 1 .. Len(r) : \E j \in 1 .. Len(es) : r[i] = Reloaded(es[j], fate[j])
         /\ Grows(es) => Grows(r)
         /\ (\A j \in 1 .. Len(es) : fate[j] = "whole") =>
              /\ Len(r) = IF Len(es) <= MaxRead THEN Len(es) ELSE MaxRead
              /\ \A i \in 1 .. Len(r) : r[i] = Reloaded(es[i], "whole")
<1> DEFINE es == f.entries
           K  == Len(es)
           R(n) == Reloaded(es[n], fate[n])
<1>1. PICK u : Keeps(u, f.entries, fate) /\ hk_worm_read_file(f, fate) = u[Len(f.entries)]
  BY ReadKeeps
<1>2. /\ K \in Nat /\ MaxRead \in Nat /\ MaxRead >= 1
      /\ u \in [0 .. K -> Seq(Entry)] /\ u[0] = <<>>
      /\ \A n \in 1 .. K : u[n] = IF Len(u[n - 1]) = MaxRead \/ fate[n] = "skipped" THEN u[n - 1]
                                  ELSE Append(u[n - 1], R(n))
  BY <1>1, WormAssumption DEF Keeps
<1>3. \A n \in 1 .. K : R(n) \in Entry /\ R(n).id = es[n].id /\ es[n].id \in Nat
  <2>1. es \in Seq(Entry) /\ DOMAIN es = 1 .. K
    OBVIOUS
  <2>2. \A n \in 1 .. K : es[n] \in Entry /\ fate[n] \in Fates
    BY <2>1
  <2> HIDE DEF es, K
  <2>3. \A n \in 1 .. K : Reloaded(es[n], fate[n]) \in Entry /\ IsCopy(Reloaded(es[n], fate[n]), es[n])
    BY <2>2, ReloadedIs
  <2> QED BY <2>2, <2>3 DEF IsCopy, Entry
<1> DEFINE Some(s, n) == \A i \in 1 .. Len(s) : \E j \in 1 .. n : s[i] = R(j)
           AllOf(s, n) == /\ Len(s) = IF n <= MaxRead THEN n ELSE MaxRead
                          /\ \A i \in 1 .. Len(s) : s[i] = R(i)
           Whole == \A j \in 1 .. K : fate[j] = "whole"
           Good(s, n) == /\ Len(s) <= MaxRead
                         /\ Some(s, n)
                         /\ Grows(es) => Grows(s)
                         /\ Whole => AllOf(s, n)
           S == {n \in 0 .. K : Good(u[n], n)}
<1> HIDE DEF R, es, K
<1>4. 0 \in S
  BY <1>2 DEF Grows
<1>5. ASSUME NEW n \in 0 .. K - 1, n \in S PROVE n + 1 \in S
  <2>1. n \in Nat /\ n + 1 \in 1 .. K /\ n + 1 \in 0 .. K /\ n + 1 - 1 = n /\ n \in 0 .. K
    BY <1>2
  <2> DEFINE s == u[n]
             t == u[n + 1]
             m == Len(s)
  <2>2. t = IF m = MaxRead \/ fate[n + 1] = "skipped" THEN s ELSE Append(s, R(n + 1))
    BY <1>2, <2>1
  <2>3. s \in Seq(Entry) /\ m \in Nat /\ R(n + 1) \in Entry
    BY <1>2, <1>3, <2>1
  <2>4. Good(s, n)
    BY <1>5
  <2> HIDE DEF s, t
  <2>5. CASE m = MaxRead \/ fate[n + 1] = "skipped"
    <3>1. t = s
      BY <2>2, <2>5
    <3>2. Some(t, n + 1)
      <4>1. \A j \in 1 .. n : j \in 1 .. n + 1
        BY <2>1
      <4> QED BY <2>4, <3>1, <4>1
    <3>3. Whole => AllOf(t, n + 1)
      <4> SUFFICES ASSUME Whole PROVE AllOf(t, n + 1)
        OBVIOUS
      <4>1. m = MaxRead
        BY <2>1, <2>5
      <4>2. AllOf(s, n)
        BY <2>4
      <4>3. n >= MaxRead
        BY <1>2, <2>1, <4>1, <4>2
      <4> QED BY <1>2, <2>1, <3>1, <4>1, <4>2, <4>3
    <3> QED BY <2>1, <2>4, <3>1, <3>2, <3>3 DEF t
  <2>6. CASE ~(m = MaxRead \/ fate[n + 1] = "skipped")
    <3>1. /\ t \in Seq(Entry) /\ Len(t) = m + 1 /\ t[m + 1] = R(n + 1)
          /\ \A i \in 1 .. m : t[i] = s[i]
      BY <2>2, <2>3, <2>6
    <3>2. m < MaxRead
      BY <1>2, <2>3, <2>4, <2>6
    <3>3. \A i \in 1 .. m + 1 : i = m + 1 \/ i \in 1 .. m
      BY <2>3
    <3>4. Some(t, n + 1)
      <4>1. \A j \in 1 .. n : j \in 1 .. n + 1
        BY <2>1
      <4>2. n + 1 \in 1 .. n + 1
        BY <2>1
      <4>3. ASSUME NEW i \in 1 .. m + 1 PROVE \E j \in 1 .. n + 1 : t[i] = R(j)
        <5>1. CASE i = m + 1
          BY <3>1, <4>2, <5>1
        <5>2. CASE i \in 1 .. m
          <6>1. PICK j \in 1 .. n : s[i] = R(j)
            BY <2>4, <5>2
          <6> QED BY <3>1, <4>1, <5>2, <6>1
        <5> QED BY <3>3, <5>1, <5>2
      <4> QED BY <3>1, <4>3
    <3>5. Grows(es) => Grows(t)
      <4> SUFFICES ASSUME Grows(es), NEW i \in 1 .. m + 1, NEW k \in 1 .. m + 1, i < k
                   PROVE  t[i].id < t[k].id
        BY <3>1 DEF Grows
      <4>1. Grows(s)
        BY <2>4
      <4>2. i \in 1 .. m
        BY <2>3
      <4>3. CASE k \in 1 .. m
        BY <3>1, <4>1, <4>2, <4>3 DEF Grows
      <4>4. CASE k = m + 1
        <5>1. PICK j \in 1 .. n : s[i] = R(j)
          BY <2>4, <4>2
        <5>2. j \in 1 .. K /\ n + 1 \in 1 .. K /\ j < n + 1 /\ K = Len(es)
          BY <2>1, <1>2 DEF K
        <5>3. es[j].id < es[n + 1].id
          BY <5>2 DEF Grows
        <5>4. t[i].id = es[j].id /\ t[k].id = es[n + 1].id
          BY <1>3, <3>1, <4>2, <4>4, <5>1, <5>2
        <5> QED BY <5>3, <5>4
      <4> QED BY <3>3, <4>3, <4>4
    <3>6. Whole => AllOf(t, n + 1)
      <4> SUFFICES ASSUME Whole PROVE AllOf(t, n + 1)
        OBVIOUS
      <4>1. AllOf(s, n)
        BY <2>4
      <4>2. m = n /\ n + 1 <= MaxRead
        BY <1>2, <2>1, <3>2, <4>1
      <4>3. \A i \in 1 .. Len(t) : t[i] = R(i)
        BY <3>1, <3>3, <4>1, <4>2
      <4> QED BY <3>1, <4>2, <4>3
    <3>7. Len(t) <= MaxRead
      BY <1>2, <2>3, <3>1, <3>2
    <3>8. Good(t, n + 1)
      BY <3>4, <3>5, <3>6, <3>7
    <3> HIDE DEF Good
    <3> QED BY <2>1, <3>8 DEF t
  <2> HIDE DEF S, m
  <2> QED BY <2>5, <2>6
<1>6. \A n \in 0 .. K : n \in S
  <2> HIDE DEF S
  <2> QED BY <1>2, <1>4, <1>5, UpTo
<1>7. K \in 0 .. K /\ u[K] \in Seq(Entry)
  BY <1>2
<1>8. Good(u[K], K)
  BY <1>6, <1>7
<1>9. Whole => \A i \in 1 .. Len(u[K]) : i \in 1 .. K
  BY <1>2, <1>7, <1>8
<1>10. Whole => \A i \in 1 .. Len(u[K]) : u[K][i] = Reloaded(es[i], "whole")
  BY <1>8, <1>9 DEF R
<1>11. hk_worm_read_file(f, fate) = u[K]
  BY <1>1 DEF K, es
<1> HIDE DEF S
<1> QED BY <1>7, <1>8, <1>10, <1>11 DEF K, es, R

Typed ==
  /\ ledger \in Seq(Entry) /\ buffer \in Seq(Entry) /\ saved \in Seq(Entry)
  /\ file \in [entries : Seq(Entry), torn : BOOLEAN]
  /\ writing \in BOOLEAN
  /\ log \in Seq(Entry) /\ Len(log) \in 0 .. MaxAppends

\* Reloaded entries come first and have lost their chain hash; the others carry
\* the one computed from the entry before.
ChainedAt(es, i) ==
  IF IsReloaded(es[i])
  THEN es[i].chain_hash = Zero /\ i <= MaxRead /\ IsReloaded(es[1])
  ELSE es[i].chain_hash =
         hk_worm_compute_chain_hash(IF i = 1 THEN Zero ELSE es[i - 1].chain_hash,
                                    es[i].content_hash)

Chained == \A i \in 1 .. Len(ledger) : ChainedAt(ledger, i)

\* The first entries of t, some or all or none of them.
Begins(s, t) == Len(s) <= Len(t) /\ \A i \in 1 .. Len(s) : s[i] = t[i]

\* During a save the file is empty and the stream has the first entries of the
\* ledger; between saves the file has the first entries of the last one.
Saving ==
  /\ writing => /\ saved = ledger /\ file.entries = <<>>
                /\ Begins(buffer, saved)
  /\ Begins(file.entries, saved)
  /\ ~writing /\ file.torn => Len(file.entries) < Len(saved)

\* Copies of entries that were appended, in the order of their appending.
Genuine(es) ==
  /\ Grows(es)
  /\ \A i \in 1 .. Len(es) : es[i].id \in 1 .. Len(log) /\ IsCopy(es[i], log[es[i].id])

Remembered ==
  /\ \A i \in 1 .. Len(log) : log[i].id = i
  /\ Genuine(ledger) /\ Genuine(saved)

StoreInv == Typed /\ Chained /\ Saving /\ Remembered

LEMMA XorTyped ==
  ASSUME NEW p \in SUBSET Bits, NEW c \in ContentHashes
  PROVE  hk_worm_compute_chain_hash(p, c) \in SUBSET Bits
BY DEF hk_worm_compute_chain_hash, Bits

\* Some of the stream's entries are a sequence that begins like it.
LEMMA CutBegins ==
  ASSUME NEW b \in Seq(Entry), NEW n \in 0 .. Len(b)
  PROVE  /\ SubSeq(b, 1, n) \in Seq(Entry)
         /\ Len(SubSeq(b, 1, n)) = n
         /\ \A i \in 1 .. n : SubSeq(b, 1, n)[i] = b[i]
OBVIOUS

\* Whatever reaches the disk of a save is a beginning of the ledger saved.
LEMMA FlushBegins ==
  ASSUME StoreInv, writing, Flush
  PROVE  /\ file' \in [entries : Seq(Entry), torn : BOOLEAN]
         /\ Begins(file'.entries, saved)
         /\ file'.torn => Len(file'.entries) < Len(saved)
<1>1. PICK n \in 0 .. Len(buffer), torn \in BOOLEAN :
        /\ torn => n < Len(buffer)
        /\ file' = [entries |-> file.entries \o SubSeq(buffer, 1, n), torn |-> torn]
  BY DEF Flush
<1> DEFINE cut == SubSeq(buffer, 1, n)
<1>2. /\ cut \in Seq(Entry) /\ Len(cut) = n
      /\ \A i \in 1 .. n : cut[i] = buffer[i]
  BY CutBegins DEF StoreInv, Typed
<1>3. file.entries = <<>>
  BY DEF StoreInv, Saving
<1> HIDE DEF cut
<1>4. <<>> \o cut = cut
  BY <1>2
<1>5. file'.entries = cut /\ file' = [entries |-> cut, torn |-> torn]
  BY <1>1, <1>3, <1>4 DEF cut
<1>6. Begins(buffer, saved) /\ Len(buffer) \in Nat /\ Len(saved) \in Nat
  BY DEF StoreInv, Typed, Saving
<1>7. Begins(cut, saved)
  BY <1>2, <1>6 DEF Begins
<1>8. torn => Len(cut) < Len(saved)
  BY <1>1, <1>2, <1>6 DEF Begins
<1> QED
  BY <1>2, <1>5, <1>7, <1>8

LEMMA InitStore == Init => StoreInv
<1> SUFFICES ASSUME Init PROVE StoreInv
  OBVIOUS
<1> USE DEF Init
<1>1. Typed
  <2>1. <<>> \in Seq(Entry) /\ Len(<<>>) \in 0 .. MaxAppends
    BY WormAssumption
  <2> QED
    BY <2>1 DEF Typed
<1>2. Chained
  BY DEF Chained
<1>3. Saving
  BY DEF Saving, Begins
<1>4. Remembered
  BY DEF Remembered, Genuine, Grows
<1> QED
  BY <1>1, <1>2, <1>3, <1>4 DEF StoreInv

LEMMA AppendStore ==
  ASSUME StoreInv, NEW c \in ContentHashes, NEW p \in {"all", "long"}, AppendEntry(c, p)
  PROVE  StoreInv'
<1> DEFINE prev == IF ledger = <<>> THEN Zero ELSE Last(ledger).chain_hash
           k == Len(log)
           e == [id |-> k + 1, sequence |-> k + 1, content_hash |-> c, prev_hash |-> prev,
                 chain_hash |-> hk_worm_compute_chain_hash(prev, c), parts |-> p]
           n == Len(ledger)
<1>1. /\ ledger \in Seq(Entry) /\ n \in Nat /\ log \in Seq(Entry) /\ k \in Nat
      /\ ledger' = Append(ledger, e) /\ log' = Append(log, e) /\ ~writing
      /\ UNCHANGED <<file, writing, buffer, saved>> /\ k < MaxAppends
  BY WormAssumption DEF StoreInv, Typed, AppendEntry
<1>2. /\ prev \in SUBSET Bits
      /\ prev = IF n = 0 THEN Zero ELSE ledger[n].chain_hash
  <2>1. CASE ledger = <<>>
    BY <2>1 DEF Zero
  <2>2. CASE ledger # <<>>
    <3>1. n >= 1 /\ ledger[n] \in Entry
      BY <2>2, <1>1
    <3> QED
      BY <2>2, <3>1 DEF Last, Entry
  <2> QED
    BY <2>1, <2>2
<1>3. e \in Entry
  BY <1>1, <1>2, XorTyped DEF Entry, PartsLeft
<1>4. /\ ~IsReloaded(e) /\ e.id = k + 1 /\ IsCopy(e, e) /\ e.content_hash = c
      /\ e.chain_hash = hk_worm_compute_chain_hash(prev, c)
  BY <1>1 DEF IsReloaded, IsCopy
<1> HIDE DEF e, prev
<1>5. /\ ledger' \in Seq(Entry) /\ Len(ledger') = n + 1 /\ ledger'[n + 1] = e
      /\ \A i \in 1 .. n : ledger'[i] = ledger[i]
      /\ log' \in Seq(Entry) /\ Len(log') = k + 1 /\ log'[k + 1] = e
      /\ \A i \in 1 .. k : log'[i] = log[i]
  BY <1>1, <1>3
<1>6. Typed'
  <2>1. Len(log') \in 0 .. MaxAppends
    BY <1>1, <1>5, WormAssumption
  <2> QED
    BY <1>1, <1>5, <2>1 DEF StoreInv, Typed
<1>7. ASSUME NEW i \in 1 .. n + 1 PROVE ChainedAt(ledger', i)
  <2>1. CASE i = n + 1
    <3>1. prev = IF i = 1 THEN Zero ELSE ledger'[i - 1].chain_hash
      BY <2>1, <1>1, <1>2, <1>5
    <3> QED
      BY <2>1, <3>1, <1>4, <1>5 DEF ChainedAt
  <2>2. CASE i # n + 1
    <3>1. i \in 1 .. n /\ ledger'[i] = ledger[i] /\ ledger'[1] = ledger[1]
          /\ (i # 1 => ledger'[i - 1] = ledger[i - 1])
      BY <2>2, <1>1, <1>5, <1>7
    <3>2. ChainedAt(ledger, i)
      BY <3>1 DEF StoreInv, Chained
    <3> QED
      BY <3>1, <3>2 DEF ChainedAt
  <2> QED
    BY <2>1, <2>2
<1>8. Chained'
  BY <1>5, <1>7 DEF Chained, ChainedAt
<1>9. Saving'
  BY <1>1 DEF StoreInv, Saving, Begins
<1>10. Remembered'
  <2>1. Genuine(ledger) /\ Genuine(saved) /\ \A i \in 1 .. k : log[i].id = i
    BY DEF StoreInv, Remembered
  <2>2. \A i \in 1 .. k + 1 : i = k + 1 \/ i \in 1 .. k
    BY <1>1
  <2>3. \A i \in 1 .. k + 1 : log'[i].id = i
    BY <1>4, <1>5, <2>1, <2>2
  <2>4. \A i \in 1 .. k : i \in 1 .. k + 1 /\ i < k + 1
    BY <1>1
  <2>5. Genuine(saved)'
    BY <1>1, <1>5, <2>1, <2>4 DEF Genuine, Grows
  <2>6. /\ \A i \in 1 .. n + 1 : i = n + 1 \/ i \in 1 .. n
        /\ \A i, j \in 1 .. n + 1 : i < j => i \in 1 .. n
        /\ k + 1 \in 1 .. k + 1
    BY <1>1
  <2>7. ASSUME NEW i \in 1 .. n
        PROVE  /\ ledger'[i].id \in 1 .. k + 1 /\ ledger'[i].id < k + 1
               /\ IsCopy(ledger'[i], log'[ledger'[i].id])
    <3>1. /\ ledger[i].id \in 1 .. k /\ IsCopy(ledger[i], log[ledger[i].id])
          /\ ledger'[i] = ledger[i]
      BY <1>5, <2>1 DEF Genuine
    <3> QED BY <1>5, <2>4, <3>1
  <2>8. Grows(ledger')
    <3> SUFFICES ASSUME NEW i \in 1 .. n + 1, NEW j \in 1 .. n + 1, i < j
                 PROVE  ledger'[i].id < ledger'[j].id
      BY <1>5 DEF Grows
    <3>1. CASE j \in 1 .. n
      BY <1>5, <2>1, <2>6, <3>1 DEF Genuine, Grows
    <3>2. CASE j = n + 1
      BY <1>4, <1>5, <2>6, <2>7, <3>2
    <3> QED BY <2>6, <3>1, <3>2
  <2>9. ASSUME NEW i \in 1 .. n + 1
        PROVE  ledger'[i].id \in 1 .. k + 1 /\ IsCopy(ledger'[i], log'[ledger'[i].id])
    <3>1. CASE i \in 1 .. n
      BY <2>7, <3>1
    <3>2. CASE i = n + 1
      BY <1>4, <1>5, <2>6, <3>2
    <3> QED BY <2>6, <3>1, <3>2
  <2>10. Genuine(ledger)'
    BY <1>5, <2>8, <2>9 DEF Genuine, Grows
  <2> QED BY <1>5, <2>3, <2>5, <2>10 DEF Remembered
<1> QED
  BY <1>6, <1>8, <1>9, <1>10 DEF StoreInv

LEMMA WriteOpenStore ==
  ASSUME StoreInv, WriteOpen
  PROVE  StoreInv'
<1>1. Typed'
  BY DEF StoreInv, Typed, WriteOpen
<1>2. Chained'
  BY DEF StoreInv, Chained, ChainedAt, WriteOpen
<1>3. Saving'
  BY DEF StoreInv, Typed, Saving, Begins, WriteOpen
<1>4. Remembered'
  BY DEF StoreInv, Remembered, Genuine, Grows, WriteOpen
<1> QED
  BY <1>1, <1>2, <1>3, <1>4 DEF StoreInv

LEMMA WriteEntryStore ==
  ASSUME StoreInv, WriteEntry
  PROVE  StoreInv'
<1> DEFINE n == Len(buffer)
<1>1. /\ buffer \in Seq(Entry) /\ saved \in Seq(Entry) /\ n \in Nat /\ Len(saved) \in Nat
      /\ writing /\ saved = ledger /\ n < Len(saved)
      /\ buffer' = Append(buffer, saved[n + 1])
  BY DEF StoreInv, Typed, Saving, WriteEntry
<1>2. saved[n + 1] \in Entry
  BY <1>1
<1>3. /\ buffer' \in Seq(Entry) /\ Len(buffer') = n + 1 /\ buffer'[n + 1] = saved[n + 1]
      /\ \A i \in 1 .. n : buffer'[i] = buffer[i]
  BY <1>1, <1>2
<1>4. Typed'
  BY <1>3 DEF StoreInv, Typed, WriteEntry
<1>5. Chained'
  BY DEF StoreInv, Chained, ChainedAt, WriteEntry
<1>6. Begins(buffer', saved)
  BY <1>1, <1>3 DEF StoreInv, Saving, Begins
<1>7. Saving'
  BY <1>6 DEF StoreInv, Saving, Begins, WriteEntry
<1>8. Remembered'
  BY DEF StoreInv, Remembered, Genuine, Grows, WriteEntry
<1> QED
  BY <1>4, <1>5, <1>7, <1>8 DEF StoreInv

\* A save ends, well or not: what of it is on file is a beginning of the ledger.
LEMMA WriteEndStore ==
  ASSUME StoreInv, WriteFails \/ WriteDone
  PROVE  StoreInv'
<1>1. /\ file' \in [entries : Seq(Entry), torn : BOOLEAN]
      /\ Begins(file'.entries, saved)
      /\ file'.torn => Len(file'.entries) < Len(saved)
      /\ ~writing' /\ UNCHANGED <<ledger, buffer, log, saved>>
  BY FlushBegins DEF WriteFails, WriteDone, StoreInv, Typed
<1>2. writing' = FALSE
  BY DEF WriteFails, WriteDone
<1>3. Typed'
  BY <1>1, <1>2 DEF StoreInv, Typed
<1>4. Chained'
  BY <1>1 DEF StoreInv, Chained, ChainedAt
<1>5. Saving'
  BY <1>1, <1>2 DEF Saving, Begins
<1>6. Remembered'
  BY <1>1 DEF StoreInv, Remembered, Genuine, Grows
<1> QED
  BY <1>3, <1>4, <1>5, <1>6 DEF StoreInv

LEMMA CrashStore ==
  ASSUME StoreInv, Crash
  PROVE  StoreInv'
<1>1. /\ file' \in [entries : Seq(Entry), torn : BOOLEAN]
      /\ Begins(file'.entries, saved)
      /\ file'.torn => Len(file'.entries) < Len(saved)
  <2>1. CASE writing
    BY <2>1, FlushBegins DEF Crash
  <2>2. CASE ~writing
    BY <2>2 DEF Crash, StoreInv, Typed, Saving
  <2> QED
    BY <2>1, <2>2
<1>2. /\ ledger' = <<>> /\ buffer' = <<>> /\ writing' = FALSE
      /\ UNCHANGED <<log, saved>> /\ <<>> \in Seq(Entry)
  BY DEF Crash
<1>3. Typed'
  BY <1>1, <1>2 DEF StoreInv, Typed
<1>4. Chained'
  BY <1>2 DEF Chained
<1>5. Saving'
  BY <1>1, <1>2 DEF Saving, Begins
<1>6. Remembered'
  BY <1>2 DEF StoreInv, Remembered, Genuine, Grows
<1> QED
  BY <1>3, <1>4, <1>5, <1>6 DEF StoreInv

\* What a read gives between saves is picked from the ledger saved, and is made
\* of entries that were appended.
LEMMA PickedFromSaved ==
  ASSUME StoreInv, NEW fate \in [DOMAIN file.entries -> Fates]
  PROVE  LET r == hk_worm_read_file(file, fate) IN
         /\ r \in Seq(Entry) /\ Len(r) <= MaxRead
         /\ \A i \in 1 .. Len(r) : r[i].sequence = 0 /\ r[i].chain_hash = Zero
         /\ \A i \in 1 .. Len(r) : \E j \in 1 .. Len(saved) : IsCopy(r[i], saved[j])
         /\ Genuine(r)
<1> DEFINE r == hk_worm_read_file(file, fate)
           es == file.entries
<1>1. file \in [entries : Seq(Entry), torn : BOOLEAN]
  BY DEF StoreInv, Typed
<1>2. /\ r \in Seq(Entry) /\ Len(r) <= MaxRead
      /\ \A i \in 1 .. Len(r) : \E j \in 1 .. Len(es) : r[i] = Reloaded(es[j], fate[j])
      /\ Grows(es) => Grows(r)
  BY <1>1, ReadFacts
<1>3. /\ es \in Seq(Entry) /\ saved \in Seq(Entry) /\ log \in Seq(Entry)
      /\ Begins(es, saved) /\ Genuine(saved)
      /\ \A j \in 1 .. Len(es) : es[j] \in Entry /\ fate[j] \in Fates
  <2>1. es \in Seq(Entry) /\ DOMAIN es = 1 .. Len(es)
    BY <1>1
  <2>2. \A j \in 1 .. Len(es) : es[j] \in Entry /\ fate[j] \in Fates
    BY <2>1
  <2> QED BY <2>1, <2>2 DEF StoreInv, Typed, Saving, Remembered
<1> HIDE DEF r, es
<1>4. \A j \in 1 .. Len(es) : j \in 1 .. Len(saved) /\ es[j] = saved[j]
  <2>1. Len(es) \in Nat /\ Len(saved) \in Nat
    BY <1>3
  <2> QED BY <1>3, <2>1 DEF Begins
<1>5. Grows(es)
  BY <1>3, <1>4 DEF Genuine, Grows
<1>6. ASSUME NEW i \in 1 .. Len(r)
      PROVE  /\ r[i].sequence = 0 /\ r[i].chain_hash = Zero
             /\ \E j \in 1 .. Len(saved) : IsCopy(r[i], saved[j])
             /\ r[i].id \in 1 .. Len(log) /\ IsCopy(r[i], log[r[i].id])
  <2>1. PICK j \in 1 .. Len(es) : r[i] = Reloaded(es[j], fate[j])
    BY <1>2
  <2>2. IsCopy(r[i], es[j]) /\ r[i].sequence = 0 /\ r[i].chain_hash = Zero
    BY <1>3, <2>1, ReloadedIs
  <2>3. j \in 1 .. Len(saved) /\ es[j] = saved[j]
    BY <1>4
  <2>4. saved[j].id \in 1 .. Len(log) /\ IsCopy(saved[j], log[saved[j].id])
    BY <1>3, <2>3 DEF Genuine
  <2>5. r[i].id = saved[j].id /\ IsCopy(r[i], log[r[i].id])
    BY <2>2, <2>3, <2>4 DEF IsCopy
  <2> QED BY <2>2, <2>3, <2>4, <2>5
<1>7. Genuine(r)
  BY <1>2, <1>5, <1>6 DEF Genuine
<1> QED BY <1>2, <1>6, <1>7 DEF r

LEMMA ReadStore ==
  ASSUME StoreInv, Read
  PROVE  StoreInv'
<1>0. PICK fate \in [DOMAIN file.entries -> Fates] : ledger' = hk_worm_read_file(file, fate)
  BY DEF Read
<1> DEFINE r == hk_worm_read_file(file, fate)
<1>1. /\ r \in Seq(Entry) /\ Len(r) <= MaxRead /\ Genuine(r)
      /\ \A i \in 1 .. Len(r) : r[i].sequence = 0 /\ r[i].chain_hash = Zero
  BY PickedFromSaved
<1>2. ledger' = r /\ ~writing /\ UNCHANGED <<file, writing, buffer, log, saved>>
  BY <1>0 DEF Read
<1> HIDE DEF r
<1>3. Typed'
  BY <1>1, <1>2 DEF StoreInv, Typed
<1>4. ASSUME NEW i \in 1 .. Len(r) PROVE ChainedAt(r, i)
  <2>1. Len(r) \in Nat /\ 1 \in 1 .. Len(r) /\ i <= MaxRead
    BY <1>1, WormAssumption
  <2> QED
    BY <2>1, <1>1 DEF ChainedAt, IsReloaded
<1>5. Chained'
  BY <1>2, <1>4 DEF Chained, ChainedAt
<1>6. Saving'
  BY <1>2 DEF StoreInv, Saving, Begins
<1>7. Remembered'
  BY <1>1, <1>2 DEF StoreInv, Remembered, Genuine, Grows
<1> QED
  BY <1>3, <1>5, <1>6, <1>7 DEF StoreInv

LEMMA NextStore == StoreInv /\ [Next]_vars => StoreInv'
<1> SUFFICES ASSUME StoreInv, [Next]_vars PROVE StoreInv'
  OBVIOUS
<1>1. ASSUME UNCHANGED vars PROVE StoreInv'
  BY <1>1 DEF StoreInv, Typed, Chained, ChainedAt, Saving, Begins, Remembered, Genuine, Grows, vars
<1> QED
  BY <1>1, AppendStore, WriteOpenStore, WriteEntryStore, WriteEndStore, CrashStore, ReadStore
  DEF Next

\* What the application, the stream and the file hold fits together at all times.
THEOREM WormStoreInvariant == Spec => []StoreInv
BY InitStore, NextStore, PTL DEF Spec

\* Type correctness: hashes stay within the bits of content hashes, and what a
\* read returned fits the array it was read into.
THEOREM WormTypes == Spec => []TypeOK
<1>1. StoreInv => TypeOK
  <2> SUFFICES ASSUME StoreInv PROVE TypeOK
    OBVIOUS
  <2>1. ASSUME NEW i \in DOMAIN ledger
        PROVE  /\ ledger[i].content_hash \in ContentHashes
               /\ ledger[i].prev_hash \subseteq Bits /\ ledger[i].chain_hash \subseteq Bits
               /\ ledger[i].parts \in PartsLeft
               /\ IsReloaded(ledger[i]) => i <= MaxRead
    <3>1. i \in 1 .. Len(ledger) /\ ledger[i] \in Entry
      BY DEF StoreInv, Typed
    <3> QED
      BY <3>1 DEF StoreInv, Chained, ChainedAt, Entry
  <2>2. Len(buffer) <= Len(ledger) \/ ~writing
    BY DEF StoreInv, Saving, Begins
  <2> QED
    BY <2>1, <2>2 DEF TypeOK, StoreInv, Typed, Bits
<1> QED
  BY <1>1, WormStoreInvariant, PTL

\* What can be read after any crash, full disk, failed allocation or save: entries
\* of the last ledger saved, in order and none twice; the first of them, up to the
\* cap and each as it was saved, where no allocation of the read fails.
THEOREM ReadsAreOfTheSave == Spec => []ReadsWhatWasSaved
<1>1. StoreInv => ReadsWhatWasSaved
  <2> SUFFICES ASSUME StoreInv, ~writing PROVE ReadsWhatWasSaved
    BY DEF ReadsWhatWasSaved
  <2> DEFINE es == file.entries
             whole == [i \in DOMAIN es |-> "whole"]
             r == hk_worm_read_file(file, whole)
  <2>1. ASSUME NEW fate \in [DOMAIN es -> Fates]
        PROVE  ArePicked(hk_worm_read_file(file, fate), saved)
    <3> DEFINE q == hk_worm_read_file(file, fate)
    <3>1. /\ q \in Seq(Entry) /\ Genuine(q)
          /\ \A i \in 1 .. Len(q) : \E j \in 1 .. Len(saved) : IsCopy(q[i], saved[j])
      BY PickedFromSaved
    <3>2. DOMAIN saved = 1 .. Len(saved)
      BY DEF StoreInv, Typed
    <3> HIDE DEF q
    <3>3. DOMAIN q = 1 .. Len(q)
      BY <3>1
    <3> QED BY <3>1, <3>2, <3>3 DEF ArePicked, Genuine, Grows, q
  <2>2. /\ Len(r) = IF Len(es) <= MaxRead THEN Len(es) ELSE MaxRead
        /\ \A i \in DOMAIN r : r[i] = Reloaded(saved[i], "whole")
    <3>1. file \in [entries : Seq(Entry), torn : BOOLEAN] /\ DOMAIN es = 1 .. Len(es)
      BY DEF StoreInv, Typed
    <3>2. whole \in [DOMAIN es -> Fates] /\ \A j \in 1 .. Len(es) : whole[j] = "whole"
      BY <3>1 DEF Fates
    <3> HIDE DEF whole
    <3>3. /\ r \in Seq(Entry)
          /\ Len(r) = IF Len(es) <= MaxRead THEN Len(es) ELSE MaxRead
          /\ \A i \in 1 .. Len(r) : r[i] = Reloaded(es[i], "whole")
      BY <3>1, <3>2, ReadFacts
    <3>4. Begins(es, saved) /\ Len(es) \in Nat /\ MaxRead \in Nat
      BY WormAssumption DEF StoreInv, Typed, Saving
    <3> HIDE DEF r, es
    <3>5. \A i \in 1 .. Len(r) : i \in 1 .. Len(es)
      BY <3>3, <3>4
    <3>6. DOMAIN r = 1 .. Len(r)
      BY <3>3
    <3> QED BY <3>3, <3>4, <3>5, <3>6 DEF Begins
  <2>3. file.torn => Len(es) < Len(saved)
    BY DEF StoreInv, Saving
  <2> HIDE DEF whole, r
  <2> QED BY <2>1, <2>2, <2>3 DEF ReadsWhatWasSaved, whole, r
<1> QED
  BY <1>1, WormStoreInvariant, PTL

\* However often the ledger was saved and read back, and whatever failed: its
\* entries were appended, in this order and each once, with these hashes.
THEOREM LedgerIsGenuine == Spec => []EntriesAreGenuine
<1>1. StoreInv => EntriesAreGenuine
  <2> SUFFICES ASSUME StoreInv PROVE ArePicked(ledger, log)
    BY DEF EntriesAreGenuine
  <2>1. DOMAIN ledger = 1 .. Len(ledger) /\ DOMAIN log = 1 .. Len(log)
    BY DEF StoreInv, Typed
  <2>2. Genuine(ledger)
    BY DEF StoreInv, Remembered
  <2> QED BY <2>1, <2>2 DEF ArePicked, Genuine, Grows
<1> QED
  BY <1>1, WormStoreInvariant, PTL

\* A ledger verifies exactly when none of it came from a file, as long as no
\* content hash is all zero.
THEOREM VerifyTellsReloads == Spec => []VerifyTells
<1>1. StoreInv => VerifyTells
  <2> SUFFICES ASSUME StoreInv PROVE VerifyTells
    OBVIOUS
  <2>1. DOMAIN ledger = 1 .. Len(ledger) /\ Len(ledger) \in Nat /\ ledger \in Seq(Entry)
    BY DEF StoreInv, Typed
  <2>2. ASSUME \A i \in DOMAIN ledger : ~IsReloaded(ledger[i])
        PROVE  hk_worm_verify_chain(ledger)
    BY <2>1, <2>2 DEF StoreInv, Chained, ChainedAt, hk_worm_verify_chain
  <2>3. ASSUME NEW i \in DOMAIN ledger, IsReloaded(ledger[i]), hk_worm_verify_chain(ledger)
        PROVE  FALSE
    <3>1. 1 \in DOMAIN ledger /\ IsReloaded(ledger[1])
      BY <2>1, <2>3 DEF StoreInv, Chained, ChainedAt
    <3>2. ledger[1].chain_hash = Zero /\ ledger[1].content_hash # {}
      <4>1. ledger[1] \in Entry /\ 1 \in 1 .. Len(ledger)
        BY <2>1, <3>1
      <4>2. ledger[1].content_hash # {}
        BY <4>1, WormAssumption DEF Entry
      <4> QED
        BY <4>1, <4>2, <3>1 DEF StoreInv, Chained, ChainedAt
    <3>3. ledger[1].chain_hash = hk_worm_compute_chain_hash(Zero, ledger[1].content_hash)
      BY <2>3, <3>1 DEF hk_worm_verify_chain
    <3> QED
      BY <3>2, <3>3 DEF hk_worm_compute_chain_hash, Zero
  <2> QED
    BY <2>2, <2>3 DEF VerifyTells
<1> QED
  BY <1>1, WormStoreInvariant, PTL

(***************************************************************************)
(* The WORM chain, of records and of bytes.                                *)
(***************************************************************************)

LEMMA PutFacts ==
  ASSUME NEW s, IsSeq(s), NEW i \in DOMAIN s, NEW x
  PROVE  IsSeq(ReplaceAt(s, i, x)) /\ IsSeq(RemoveAt(s, i))
<1>1. Len(s) \in Nat /\ i \in 1 .. Len(s)
  BY SeqFacts
<1> DEFINE S == {s[k] : k \in DOMAIN s} \cup {x}
<1>2. s \in Seq(S) /\ x \in S
  BY DEF IsSeq
<1>3. ReplaceAt(s, i, x) \in Seq(S)
  <2> HIDE DEF S
  <2> QED BY <1>1, <1>2, ExceptSeq DEF ReplaceAt
<1>4. IsSeq(SubSeq(s, 1, i - 1)) /\ IsSeq(SubSeq(s, i + 1, Len(s)))
  BY <1>1, PartFacts
<1> HIDE DEF S
<1> QED BY <1>3, <1>4, SeqIs, JoinFacts DEF RemoveAt

(***************************************************************************)
(* The chain.                                                              *)
(***************************************************************************)

\* What appending has made: every record after the first ones.
WellMade(links) ==
  \A i \in DOMAIN links : \E e \in Events, d, m \in Parts, t \in Times :
    links[i] = Record(SubSeq(links, 1, i - 1), e, d, m, t)
ChainInv == IsSeq(original) /\ IsSeq(records) /\ WellMade(original)

LEMMA BytesAreSeq ==
  ASSUME NEW b \in Events \cup Parts
  PROVE  IsSeq(b)
BY ChainBounds DEF IsSeq

\* Appending leaves what came before a place as it was.
LEMMA BeforeIs ==
  ASSUME NEW s, IsSeq(s), NEW x, NEW i \in 1 .. Len(s) + 1
  PROVE  SubSeq(Append(s, x), 1, i - 1) = SubSeq(s, 1, i - 1)
<1> DEFINE a == Append(s, x)
<1>0. Len(s) \in Nat /\ i - 1 \in Nat /\ i - 1 <= Len(s)
  BY SeqFacts
<1>1. IsSeq(a) /\ Len(a) = Len(s) + 1 /\ \A k \in 1 .. Len(s) : a[k] = s[k]
  BY AppendFacts
<1> HIDE DEF a
<1>2. /\ IsSeq(SubSeq(a, 1, i - 1)) /\ Len(SubSeq(a, 1, i - 1)) = i - 1
      /\ \A k \in 1 .. i - 1 : SubSeq(a, 1, i - 1)[k] = a[k]
  BY <1>0, <1>1, PartFacts
<1>3. /\ IsSeq(SubSeq(s, 1, i - 1)) /\ Len(SubSeq(s, 1, i - 1)) = i - 1
      /\ \A k \in 1 .. i - 1 : SubSeq(s, 1, i - 1)[k] = s[k]
  BY <1>0, PartFacts
<1>4. \A k \in 1 .. i - 1 : SubSeq(a, 1, i - 1)[k] = SubSeq(s, 1, i - 1)[k]
  BY <1>0, <1>1, <1>2, <1>3
<1>5. SubSeq(a, 1, i - 1) = SubSeq(s, 1, i - 1)
  BY <1>2, <1>3, <1>4, SameSeq
<1> QED BY <1>5 DEF a

LEMMA AllBefore ==
  ASSUME NEW s, IsSeq(s)
  PROVE  SubSeq(s, 1, Len(s)) = s
BY SubSeqFull DEF IsSeq

\* A chain made by appending stays one.
LEMMA StaysWellMade ==
  ASSUME NEW links, IsSeq(links), WellMade(links), NEW e \in Events, NEW d \in Parts,
         NEW m \in Parts, NEW t \in Times
  PROVE  WellMade(Append(links, Record(links, e, d, m, t)))
<1> DEFINE x == Record(links, e, d, m, t)  a == Append(links, x)
<1>1. /\ DOMAIN a = 1 .. Len(links) + 1 /\ \A k \in 1 .. Len(links) : a[k] = links[k]
      /\ a[Len(links) + 1] = x /\ DOMAIN links = 1 .. Len(links) /\ Len(links) \in Nat
  <2> HIDE DEF x
  <2> QED BY AppendFacts, SeqFacts
<1>2. \A i \in 1 .. Len(links) + 1 : SubSeq(a, 1, i - 1) = SubSeq(links, 1, i - 1)
  <2> HIDE DEF x
  <2> QED BY BeforeIs
<1>3. SubSeq(a, 1, (Len(links) + 1) - 1) = links
  <2>1. SubSeq(a, 1, (Len(links) + 1) - 1) = SubSeq(links, 1, (Len(links) + 1) - 1)
    BY <1>1, <1>2
  <2> HIDE DEF a
  <2> QED BY <1>1, <2>1, AllBefore
<1>4. ASSUME NEW i \in DOMAIN a
      PROVE  \E e2 \in Events, d2, m2 \in Parts, t2 \in Times :
               a[i] = Record(SubSeq(a, 1, i - 1), e2, d2, m2, t2)
  <2>1. CASE i = Len(links) + 1
    <3>1. a[i] = Record(SubSeq(a, 1, i - 1), e, d, m, t)
      BY <1>1, <1>3, <2>1, Zenon
    <3> QED BY <3>1, Zenon
  <2>2. CASE i # Len(links) + 1
    <3> HIDE DEF a
    <3>1. i \in DOMAIN links /\ i \in 1 .. Len(links) + 1 /\ i \in 1 .. Len(links)
      BY <1>1, <2>2
    <3>2. PICK e2 \in Events, d2 \in Parts, m2 \in Parts, t2 \in Times :
            links[i] = Record(SubSeq(links, 1, i - 1), e2, d2, m2, t2)
      BY <3>1, Zenon DEF WellMade
    <3>3. a[i] = Record(SubSeq(a, 1, i - 1), e2, d2, m2, t2)
      BY <1>1, <1>2, <3>1, <3>2, Zenon
    <3> QED BY <3>3, Zenon
  <2> QED BY <2>1, <2>2
<1> QED BY <1>4, Zenon DEF WellMade

\* Putting right again goes from record to record: there is a function that
\* does what the fold asks for.
PutRight(done, r) == Append(done, Record(done, r.event, r.data, r.metadata, r.header.timestamp_ns))
PutsRight(f, n, prefix, rest) ==
  f = [s \in SUBSET (1 .. n) |->
         IF s = {} THEN prefix ELSE PutRight(f[s \ {Max(s)}], rest[Max(s)])]

\* The partial results of rehashing exist.
LEMMA PutRightExists ==
  ASSUME NEW N \in Nat, NEW prefix, NEW rest
  PROVE  \E f : PutsRight(f, N, prefix, rest)
<1> DEFINE S == {m \in 0 .. N : \E f : PutsRight(f, m, prefix, rest)}
<1>1. 0 \in S
  <2> DEFINE f0 == [s \in SUBSET (1 .. 0) |-> prefix]
  <2>1. \A s \in SUBSET (1 .. 0) : s = {}
    OBVIOUS
  <2>2. PutsRight(f0, 0, prefix, rest)
    BY <2>1 DEF PutsRight
  <2> QED BY <2>2
<1>2. ASSUME NEW m \in 0 .. N - 1, m \in S PROVE m + 1 \in S
  <2>1. PICK f : PutsRight(f, m, prefix, rest)
    BY <1>2
  <2> DEFINE h == [s \in SUBSET (1 .. m + 1) |->
                     IF m + 1 \in s THEN PutRight(f[s \ {m + 1}], rest[m + 1]) ELSE f[s]]
  <2>2. ASSUME NEW s \in SUBSET (1 .. m + 1)
        PROVE  h[s] = IF s = {} THEN prefix ELSE PutRight(h[s \ {Max(s)}], rest[Max(s)])
    <3>1. CASE m + 1 \in s
      <4>1. Max(s) = m + 1
        BY <3>1, MaxIs
      <4>2. s \ {m + 1} \in SUBSET (1 .. m) /\ s \ {m + 1} \in SUBSET (1 .. m + 1)
        OBVIOUS
      <4>3. h[s \ {m + 1}] = f[s \ {m + 1}]
        BY <4>2
      <4> QED BY <3>1, <4>1, <4>3
    <3>2. CASE m + 1 \notin s
      <4>1. s \in SUBSET (1 .. m) /\ h[s] = f[s]
        BY <3>2
      <4>2. f[s] = IF s = {} THEN prefix ELSE PutRight(f[s \ {Max(s)}], rest[Max(s)])
        BY <4>1, <2>1 DEF PutsRight
      <4>3. m + 1 \notin s \ {Max(s)} /\ s \ {Max(s)} \in SUBSET (1 .. m + 1)
        BY <3>2
      <4>4. h[s \ {Max(s)}] = f[s \ {Max(s)}]
        BY <4>3
      <4> QED BY <4>1, <4>2, <4>4
    <3> QED BY <3>1, <3>2
  <2>3. PutsRight(h, m + 1, prefix, rest)
    <3>1. h = [s \in SUBSET (1 .. m + 1) |-> h[s]]
      OBVIOUS
    <3> HIDE DEF h
    <3> QED BY <2>2, <3>1 DEF PutsRight
  <2> HIDE DEF h
  <2> QED BY <2>3
<1>3. \A n \in 0 .. N : n \in S
  <2> HIDE DEF S
  <2> QED BY <1>1, <1>2, UpTo
<1> QED BY <1>3

\* What is put right again after a change is a sequence of records.
LEMMA RebuiltIsSeq ==
  ASSUME NEW prefix, IsSeq(prefix), NEW rest, IsSeq(rest)
  PROVE  IsSeq(Rebuilt(prefix, rest))
<1> DEFINE N == Len(rest)
           IsFold(f) == f = [s \in SUBSET (1 .. N) |->
                               IF s = {} THEN prefix
                               ELSE Append(f[s \ {Max(s)}],
                                      Record(f[s \ {Max(s)}], rest[Max(s)].event, rest[Max(s)].data,
                                             rest[Max(s)].metadata, rest[Max(s)].header.timestamp_ns))]
           f == CHOOSE f : IsFold(f)
<1>1. N \in Nat /\ DOMAIN rest = 1 .. N
  BY SeqFacts
<1>2. \A x : IsFold(x) <=> PutsRight(x, N, prefix, rest)
  BY Zenon DEF PutsRight, PutRight
<1>3. Rebuilt(prefix, rest) = f[1 .. N]
  BY <1>1 DEF Rebuilt, FoldLeft, MapThenFoldSet
<1>4. PutsRight(f, N, prefix, rest)
  <2>1. \E x : IsFold(x)
    <3> HIDE DEF IsFold, N
    <3> QED BY <1>1, <1>2, PutRightExists
  <2>2. IsFold(f)
    <3> HIDE DEF IsFold
    <3> QED BY <2>1, Zenon
  <2> HIDE DEF IsFold, f
  <2> QED BY <1>2, <2>2
<1> HIDE DEF f, IsFold, N
<1> DEFINE S == {n \in 0 .. N : IsSeq(f[1 .. n])}
<1>5. 0 \in S
  <2>1. 1 .. 0 = {} /\ {} \in SUBSET (1 .. N)
    OBVIOUS
  <2>2. f[1 .. 0] = prefix
    BY <1>4, <2>1 DEF PutsRight
  <2> QED BY <1>1, <2>2
<1>6. ASSUME NEW n \in 0 .. N - 1, n \in S PROVE n + 1 \in S
  <2>1. n + 1 \in Nat /\ n + 1 # 0 /\ 1 .. n + 1 \in SUBSET (1 .. N) /\ (n + 1) - 1 = n
    BY <1>1
  <2>2. Max(1 .. n + 1) = n + 1 /\ (1 .. n + 1) \ {n + 1} = 1 .. n /\ 1 .. n + 1 # {}
    BY <2>1, LastOfFirst
  <2>3. f[1 .. n + 1] = PutRight(f[1 .. n], rest[n + 1])
    BY <1>4, <2>1, <2>2 DEF PutsRight
  <2>4. IsSeq(f[1 .. n])
    BY <1>6
  <2>5. IsSeq(PutRight(f[1 .. n], rest[n + 1]))
    BY <2>4, AppendFacts DEF PutRight
  <2> QED BY <1>1, <2>3, <2>5
<1>7. \A n \in 0 .. N : n \in S
  <2> HIDE DEF S
  <2> QED BY <1>1, <1>5, <1>6, UpTo
<1>8. IsSeq(f[1 .. N])
  BY <1>1, <1>7
<1> QED BY <1>3, <1>8

(***************************************************************************)
(* Sealing.                                                                *)
(***************************************************************************)

\* An appended chain verifies.
LEMMA WellMadeVerifies ==
  ASSUME NEW links, WellMade(links)
  PROVE  verify(links)
<1> SUFFICES ASSUME NEW i \in DOMAIN links
             PROVE  /\ links[i].header.previous_hash = LinkTo(SubSeq(links, 1, i - 1))
                    /\ links[i].header.content_hash = hash_sha256(Content(links[i]))
  BY Zenon DEF verify
<1> DEFINE before == SubSeq(links, 1, i - 1)
<1>1. PICK e \in Events, d \in Parts, m \in Parts, t \in Times : links[i] = Record(before, e, d, m, t)
  BY Zenon DEF WellMade
<1> HIDE DEF before
<1> DEFINE x == LinkTo(before)
           y == e \o d \o m
<1>2. links[i] = [header |-> Header(e, d, m, t, x), event |-> e, data |-> d, metadata |-> m]
  BY <1>1, Zenon DEF Record
<1>3. Content(links[i]) = y
  BY <1>2 DEF Content
<1> HIDE DEF x
<1>4. Header(e, d, m, t, x).previous_hash = x /\ Header(e, d, m, t, x).content_hash = hash_sha256(y)
  BY DEF Header
<1> HIDE DEF y
<1> QED BY <1>2, <1>3, <1>4 DEF x, before

\* Two chains that verify and end in the same bytes have the same bytes.
LEMMA LinksDecide ==
  ASSUME NEW c, IsSeq(c), NEW b, IsSeq(b), c # <<>>, b # <<>>,
         LinkTo(c) = LinkTo(b)
  PROVE  to_bytes(Last(c)) = to_bytes(Last(b))
BY DEF LinkTo, hash_sha256

\* No record has the genesis hash.
LEMMA GenesisIsNoLink ==
  ASSUME NEW c, NEW b, LinkTo(c) = LinkTo(b)
  PROVE  c = <<>> <=> b = <<>>
<1>1. \A x : hash_sha256(x) # Genesis
  BY DEF hash_sha256, Genesis
<1> QED BY <1>1 DEF LinkTo

\* Equal bytes are of equal records.
LEMMA SameBytesSameLink ==
  ASSUME NEW r, NEW o, to_bytes(r) = to_bytes(o)
  PROVE  r.header = o.header
<1> DEFINE p == Content(r)
           q == Content(o)
<1> HIDE DEF p, q
<1>1. [header |-> r.header, payload |-> p] = [header |-> o.header, payload |-> q]
  BY DEF to_bytes, p, q
<1> QED BY <1>1

LEMMA LastOfPart ==
  ASSUME NEW s, IsSeq(s), NEW n \in 1 .. Len(s)
  PROVE  SubSeq(s, 1, n) # <<>> /\ Last(SubSeq(s, 1, n)) = s[n]
<1>1. n \in Nat /\ n <= Len(s) /\ Len(s) \in Nat
  BY SeqFacts
<1> DEFINE p == SubSeq(s, 1, n)
<1>2. IsSeq(p) /\ Len(p) = n /\ \A i \in 1 .. n : p[i] = s[1 + i - 1]
  BY <1>1, PartFacts
<1> HIDE DEF p
<1>3. p # <<>> /\ Last(p) = s[n]
  BY <1>1, <1>2, SeqFacts DEF Last
<1> QED BY <1>3 DEF p

LEMMA NoPart ==
  ASSUME NEW s
  PROVE  SubSeq(s, 1, 0) = <<>>
BY SubSeqEmpty

\* Two verified chains that end in one record are one chain: backwards, each
\* record holds the hash of the one before.
LEMMA Sealed ==
  ASSUME NEW c, IsSeq(c), NEW b, IsSeq(b), c # <<>>, b # <<>>, verify(c), verify(b),
         to_bytes(Last(c)) = to_bytes(Last(b))
  PROVE  Bytes(c) = Bytes(b)
<1> DEFINE n == Len(c)
           k == Len(b)
<1>0. /\ n \in Nat /\ DOMAIN c = 1 .. n /\ n >= 1
      /\ k \in Nat /\ DOMAIN b = 1 .. k /\ k >= 1
  BY SeqFacts
<1>1. to_bytes(c[n]) = to_bytes(b[k])
  BY DEF Last
<1> HIDE DEF n, k
<1> DEFINE S == {j \in 0 .. n - 1 : j < k /\ to_bytes(c[n - j]) = to_bytes(b[k - j])}
<1>2. ASSUME NEW j \in 0 .. n - 1, j < k, to_bytes(c[n - j]) = to_bytes(b[k - j])
      PROVE  LinkTo(SubSeq(c, 1, n - j - 1)) = LinkTo(SubSeq(b, 1, k - j - 1))
  <2>1. n - j \in 1 .. n /\ k - j \in 1 .. k
    BY <1>0, <1>2
  <2>2. c[n - j].header = b[k - j].header
    BY <1>2, SameBytesSameLink
  <2>3. c[n - j].header.previous_hash = LinkTo(SubSeq(c, 1, n - j - 1))
    BY <1>0, <2>1 DEF verify
  <2>4. b[k - j].header.previous_hash = LinkTo(SubSeq(b, 1, k - j - 1))
    BY <1>0, <2>1 DEF verify
  <2> QED BY <2>2, <2>3, <2>4
<1>3. 0 \in S
  BY <1>0, <1>1
<1>4. ASSUME NEW j \in 0 .. (n - 1) - 1, j \in S PROVE j + 1 \in S
  <2> DEFINE p == SubSeq(c, 1, n - j - 1)
             q == SubSeq(b, 1, k - j - 1)
  <2>1. LinkTo(p) = LinkTo(q)
    BY <1>2, <1>4
  <2>2. n - j - 1 \in 1 .. n
    BY <1>0, <1>4
  <2>3. p # <<>> /\ Last(p) = c[n - j - 1]
    BY <2>2, LastOfPart DEF n
  <2>4. q # <<>>
    <3> HIDE DEF p, q
    <3> QED BY <2>1, <2>3, GenesisIsNoLink
  <2>5. k - j - 1 # 0
    BY <2>4, NoPart
  <2>6. k - j - 1 \in 1 .. k
    BY <1>0, <1>4, <2>5
  <2>7. Last(q) = b[k - j - 1]
    BY <2>6, LastOfPart DEF k
  <2>8. to_bytes(Last(p)) = to_bytes(Last(q))
    <3>1. IsSeq(p) /\ IsSeq(q)
      BY <1>0, <2>2, <2>6, PartFacts DEF n, k
    <3> HIDE DEF p, q
    <3> QED BY <2>1, <2>3, <2>4, <3>1, LinksDecide
  <2>9. to_bytes(c[n - (j + 1)]) = to_bytes(b[k - (j + 1)])
    <3>1. n - (j + 1) = n - j - 1 /\ k - (j + 1) = k - j - 1
      BY <1>0
    <3> HIDE DEF p, q
    <3> QED BY <2>3, <2>7, <2>8, <3>1
  <2>10. j + 1 \in 0 .. n - 1 /\ j + 1 < k
    BY <1>0, <1>4, <2>6
  <2> HIDE DEF p, q
  <2> QED BY <2>9, <2>10
<1>5. \A j \in 0 .. n - 1 : j \in S
  <2>1. n - 1 \in Nat
    BY <1>0
  <2> HIDE DEF S
  <2> QED BY <1>3, <1>4, <2>1, UpTo
<1>6. k = n
  <2>1. n - 1 \in S
    BY <1>0, <1>5
  <2>2. LinkTo(SubSeq(c, 1, n - (n - 1) - 1)) = LinkTo(SubSeq(b, 1, k - (n - 1) - 1))
    BY <1>0, <1>2, <2>1
  <2>3. n - (n - 1) - 1 = 0 /\ k - (n - 1) - 1 = k - n /\ k - n \in 0 .. k
    BY <1>0, <2>1
  <2>4. SubSeq(c, 1, 0) = <<>>
    BY NoPart
  <2>5. LinkTo(<<>>) = LinkTo(SubSeq(b, 1, k - n))
    BY <2>2, <2>3, <2>4
  <2>6. SubSeq(b, 1, k - n) = <<>>
    BY <2>5, GenesisIsNoLink
  <2>7. k - n \notin 1 .. k
    BY <2>6, LastOfPart DEF k
  <2> QED BY <1>0, <2>3, <2>7
<1>7. ASSUME NEW i \in 1 .. n PROVE to_bytes(c[i]) = to_bytes(b[i])
  <2>1. n - i \in S /\ n - (n - i) = i
    BY <1>0, <1>5
  <2> QED BY <1>6, <2>1
<1> QED BY <1>0, <1>6, <1>7 DEF Bytes

(***************************************************************************)
(* Reading back.                                                           *)
(***************************************************************************)

\* The parts of a joined sequence.
LEMMA PartsOfJoin ==
  ASSUME NEW e, IsSeq(e), NEW d, IsSeq(d), NEW m, IsSeq(m)
  PROVE  /\ Len(e \o d \o m) = Len(e) + Len(d) + Len(m)
         /\ SubSeq(e \o d \o m, 1, Len(e)) = e
         /\ SubSeq(e \o d \o m, Len(e) + 1, Len(e) + Len(d)) = d
         /\ SubSeq(e \o d \o m, Len(e) + Len(d) + 1, Len(e) + Len(d) + Len(m)) = m
<1> DEFINE p == e \o d \o m
           a == Len(e)
           b == Len(e) + Len(d)
           c == Len(e) + Len(d) + Len(m)
<1>0. Len(e) \in Nat /\ Len(d) \in Nat /\ Len(m) \in Nat
  BY SeqFacts
<1>1. /\ IsSeq(e \o d) /\ Len(e \o d) = b
      /\ \A i \in 1 .. b : (e \o d)[i] = IF i <= Len(e) THEN e[i] ELSE d[i - Len(e)]
  BY JoinFacts
<1>2. /\ IsSeq(p) /\ Len(p) = c
      /\ \A i \in 1 .. c : p[i] = IF i <= b THEN (e \o d)[i] ELSE m[i - b]
  <2> DEFINE ed == e \o d
  <2>1. p = ed \o m
    OBVIOUS
  <2> HIDE DEF ed, p
  <2>2. IsSeq(ed) /\ Len(ed) = b
    BY <1>1 DEF ed
  <2>4. /\ IsSeq(ed \o m) /\ Len(ed \o m) = Len(ed) + Len(m)
        /\ \A i \in 1 .. Len(ed) + Len(m) : (ed \o m)[i] = IF i <= Len(ed) THEN ed[i] ELSE m[i - Len(ed)]
    BY <2>2, JoinFacts
  <2>3. /\ IsSeq(ed \o m) /\ Len(ed \o m) = b + Len(m)
        /\ \A i \in 1 .. b + Len(m) : (ed \o m)[i] = IF i <= b THEN ed[i] ELSE m[i - b]
    <3> HIDE DEF b
    <3> QED BY <2>2, <2>4
  <2> QED BY <2>1, <2>3 DEF ed
<1> HIDE DEF p
<1>3. SubSeq(p, 1, a) = e
  <2>1. /\ IsSeq(SubSeq(p, 1, a)) /\ Len(SubSeq(p, 1, a)) = a
        /\ \A i \in 1 .. a : SubSeq(p, 1, a)[i] = p[1 + i - 1]
    BY <1>0, <1>2, PartFacts
  <2>2. \A i \in 1 .. a : SubSeq(p, 1, a)[i] = e[i]
    BY <1>0, <1>1, <1>2, <2>1
  <2> QED BY <2>1, <2>2, SameSeq
<1>4. SubSeq(p, a + 1, b) = d
  <2>1. /\ IsSeq(SubSeq(p, a + 1, b)) /\ Len(SubSeq(p, a + 1, b)) = Len(d)
        /\ \A i \in 1 .. Len(d) : SubSeq(p, a + 1, b)[i] = p[a + i]
    <3>1. a + 1 \in Nat /\ a + 1 >= 1 /\ b \in Nat /\ b <= Len(p) /\ b - (a + 1) + 1 = Len(d)
          /\ (a + 1 <= b <=> Len(d) # 0)
      BY <1>0, <1>2
    <3>2. \A i \in 1 .. Len(d) : (a + 1) + i - 1 = a + i
      BY <1>0
    <3>3. /\ IsSeq(SubSeq(p, a + 1, b))
          /\ Len(SubSeq(p, a + 1, b)) = IF a + 1 <= b THEN b - (a + 1) + 1 ELSE 0
          /\ \A i \in 1 .. b - (a + 1) + 1 : SubSeq(p, a + 1, b)[i] = p[(a + 1) + i - 1]
      BY <1>2, <3>1, PartFacts
    <3> HIDE DEF a, b
    <3> QED BY <3>1, <3>2, <3>3
  <2>2. \A i \in 1 .. Len(d) : p[a + i] = d[i]
    <3>1. \A i \in 1 .. Len(d) : a + i \in 1 .. b /\ a + i \in 1 .. c /\ ~ (a + i <= Len(e)) /\ a + i <= b
                                 /\ (a + i) - Len(e) = i
      BY <1>0
    <3> QED BY <1>1, <1>2, <3>1
  <2> QED BY <2>1, <2>2, SameSeq
<1>5. SubSeq(p, b + 1, c) = m
  <2>1. /\ IsSeq(SubSeq(p, b + 1, c)) /\ Len(SubSeq(p, b + 1, c)) = Len(m)
        /\ \A i \in 1 .. Len(m) : SubSeq(p, b + 1, c)[i] = p[b + i]
    <3>1. b + 1 \in Nat /\ b + 1 >= 1 /\ c \in Nat /\ c <= Len(p) /\ c - (b + 1) + 1 = Len(m)
          /\ (b + 1 <= c <=> Len(m) # 0)
      BY <1>0, <1>2
    <3>2. \A i \in 1 .. Len(m) : (b + 1) + i - 1 = b + i
      BY <1>0
    <3>3. /\ IsSeq(SubSeq(p, b + 1, c))
          /\ Len(SubSeq(p, b + 1, c)) = IF b + 1 <= c THEN c - (b + 1) + 1 ELSE 0
          /\ \A i \in 1 .. c - (b + 1) + 1 : SubSeq(p, b + 1, c)[i] = p[(b + 1) + i - 1]
      BY <1>2, <3>1, PartFacts
    <3> HIDE DEF b, c
    <3> QED BY <3>1, <3>2, <3>3
  <2>2. \A i \in 1 .. Len(m) : p[b + i] = m[i]
    <3>1. \A i \in 1 .. Len(m) : b + i \in 1 .. c /\ ~ (b + i <= b) /\ (b + i) - b = i
      BY <1>0
    <3> QED BY <1>2, <3>1
  <2> QED BY <2>1, <2>2, SameSeq
<1> QED BY <1>2, <1>3, <1>4, <1>5 DEF p

\* A record comes back as itself exactly when its length fields say its parts.
LEMMA ReadsBack ==
  ASSUME NEW links, NEW e \in Events, NEW d \in Parts, NEW m \in Parts, NEW t \in Times
  PROVE  LET r == Record(links, e, d, m, t)
         IN from_bytes(to_bytes(r)) = {r} <=> PartsFit(r)
<1> DEFINE h == Header(e, d, m, t, LinkTo(links))
           r == [header |-> h, event |-> e, data |-> d, metadata |-> m]
           p == e \o d \o m
           E == Len(e) % EventModulus
           D == Len(d) % PartModulus
           M == Len(m) % PartModulus
<1>0. r = Record(links, e, d, m, t)
  BY DEF Record
<1>1. IsSeq(e) /\ IsSeq(d) /\ IsSeq(m)
  BY BytesAreSeq
<1>2. Len(e) \in Nat /\ Len(d) \in Nat /\ Len(m) \in Nat
  BY <1>1, SeqFacts
<1>3. /\ E \in Nat /\ E <= Len(e) /\ (E = Len(e) <=> Len(e) < EventModulus)
      /\ D \in Nat /\ D <= Len(d) /\ (D = Len(d) <=> Len(d) < PartModulus)
      /\ M \in Nat /\ M <= Len(m) /\ (M = Len(m) <=> Len(m) < PartModulus)
  <2>1. \A x \in Nat, y \in Nat \ {0} : x % y \in Nat /\ x % y <= x /\ (x % y = x <=> x < y)
    OBVIOUS
  <2> QED BY <1>2, <2>1, ChainBounds
<1>4. /\ h.magic = "WORM" /\ h.event_length = E /\ h.data_length = D
      /\ h.metadata_length = M
  <2> DEFINE x == LinkTo(links)
             y == hash_sha256(p)
  <2>1. h = [magic |-> "WORM", event_length |-> E, data_length |-> D,
             metadata_length |-> M, timestamp_ns |-> t, previous_hash |-> x, content_hash |-> y]
    BY DEF Header
  <2> HIDE DEF x, y, h, E, D, M
  <2> QED BY <2>1
<1>5. /\ Len(p) = Len(e) + Len(d) + Len(m)
      /\ SubSeq(p, 1, Len(e)) = e /\ SubSeq(p, Len(e) + 1, Len(e) + Len(d)) = d
      /\ SubSeq(p, Len(e) + Len(d) + 1, Len(e) + Len(d) + Len(m)) = m
  <2>1. /\ Len(e \o d \o m) = Len(e) + Len(d) + Len(m)
        /\ SubSeq(e \o d \o m, 1, Len(e)) = e
        /\ SubSeq(e \o d \o m, Len(e) + 1, Len(e) + Len(d)) = d
        /\ SubSeq(e \o d \o m, Len(e) + Len(d) + 1, Len(e) + Len(d) + Len(m)) = m
    <3> HIDE DEF h, r, p, E, D, M
    <3>1. Len(e \o d \o m) = Len(e) + Len(d) + Len(m)
      BY <1>1, PartsOfJoin
    <3>2. SubSeq(e \o d \o m, 1, Len(e)) = e
      BY <1>1, PartsOfJoin
    <3>3. SubSeq(e \o d \o m, Len(e) + 1, Len(e) + Len(d)) = d
      BY <1>1, PartsOfJoin
    <3>4. SubSeq(e \o d \o m, Len(e) + Len(d) + 1, Len(e) + Len(d) + Len(m)) = m
      BY <1>1, PartsOfJoin
    <3> QED BY <3>1, <3>2, <3>3, <3>4
  <2> QED BY <2>1, Zenon
<1>6. to_bytes(r) = [header |-> h, payload |-> p]
  <2> HIDE DEF h
  <2> QED BY DEF to_bytes, Content
<1>7. IsSeq(p)
  <2>1. IsSeq(e \o d)
    BY <1>1, JoinFacts
  <2> QED BY <1>1, <2>1, JoinFacts
<1> HIDE DEF h, p, E, D, M
<1> DEFINE r2 == [header |-> h, event |-> SubSeq(p, 1, E), data |-> SubSeq(p, E + 1, E + D),
                  metadata |-> SubSeq(p, E + D + 1, E + D + M)]
<1>8. from_bytes(to_bytes(r)) = {r2}
  <2>1. ~ (Len(p) < E + D + M)
    <3>1. Len(p) = Len(e) + Len(d) + Len(m)
      BY <1>5
    <3> QED BY <1>2, <1>3, <3>1
  <2> DEFINE B == to_bytes(r)
  <2>2. B.header = h /\ B.payload = p
    BY <1>6
  <2> HIDE DEF B
  <2>3. from_bytes(B) = {r2}
    BY <1>4, <2>1, <2>2 DEF from_bytes
  <2> QED BY <2>3 DEF B
<1>9. r.event = e /\ r.data = d /\ r.metadata = m
  OBVIOUS
<1>10. CASE E = Len(e) /\ D = Len(d) /\ M = Len(m)
  <2>1. r2 = r
    BY <1>5, <1>10
  <2>2. PartsFit(r)
    BY <1>3, <1>9, <1>10 DEF PartsFit
  <2> HIDE DEF r, r2
  <2> QED BY <1>0, <1>8, <2>1, <2>2
<1>11. CASE ~ (E = Len(e) /\ D = Len(d) /\ M = Len(m))
  <2>1. /\ Len(SubSeq(p, 1, E)) = E
        /\ Len(SubSeq(p, E + 1, E + D)) = D
        /\ Len(SubSeq(p, E + D + 1, E + D + M)) = M
    <3>1. Len(p) = Len(e) + Len(d) + Len(m)
      BY <1>5
    <3>2. \A a, b \in Nat : a + b <= Len(p) => Len(SubSeq(p, a + 1, a + b)) = b
      <4> SUFFICES ASSUME NEW a \in Nat, NEW b \in Nat, a + b <= Len(p)
                   PROVE  Len(SubSeq(p, a + 1, a + b)) = b
        OBVIOUS
      <4>1. /\ a + 1 \in Nat /\ a + 1 >= 1 /\ a + b \in Nat
            /\ (a + b) - (a + 1) + 1 = b /\ (a + 1 <= a + b <=> b # 0)
        OBVIOUS
      <4>2. Len(SubSeq(p, a + 1, a + b)) = IF a + 1 <= a + b THEN (a + b) - (a + 1) + 1 ELSE 0
        BY <1>7, <4>1, PartFacts
      <4> QED BY <4>1, <4>2
    <3>3. 0 + 1 = 1 /\ 0 + E = E /\ E + D \in Nat
      BY <1>3
    <3>4. E <= Len(p) /\ E + D <= Len(p) /\ E + D + M <= Len(p)
      BY <1>2, <1>3, <3>1
    <3> QED BY <1>3, <3>2, <3>3, <3>4
  <2>2. r2.event # r.event \/ r2.data # r.data \/ r2.metadata # r.metadata
    BY <1>9, <1>11, <2>1
  <2>3. {r2} # {r}
    <3> HIDE DEF r2, r
    <3> QED BY <2>2
  <2>4. ~ PartsFit(r)
    BY <1>3, <1>9, <1>11 DEF PartsFit
  <2> HIDE DEF r, r2
  <2> QED BY <1>0, <1>8, <2>3, <2>4
<1> QED BY <1>10, <1>11

(***************************************************************************)
(* The invariant.                                                          *)
(***************************************************************************)

LEMMA ChainInvInit == ChainInit => ChainInv
<1>1. IsSeq(<<>>)
  BY EmptySeq, SeqIs
<1>2. DOMAIN <<>> = {}
  OBVIOUS
<1> QED BY <1>1, <1>2, Zenon DEF ChainInit, ChainInv, WellMade

LEMMA ChainInvNext == ChainInv /\ [ChainNext]_chainVars => ChainInv'
<1> SUFFICES ASSUME ChainInv, [ChainNext]_chainVars PROVE ChainInv'
  OBVIOUS
<1>0. IsSeq(original) /\ IsSeq(records) /\ WellMade(original)
  BY DEF ChainInv
<1>00. IsSeq(original') /\ IsSeq(records') /\ WellMade(original') => ChainInv'
  BY DEF ChainInv, WellMade, IsSeq
<1>1. CASE Chain_append
  <2>1. PICK e \in Events, d \in Parts, m \in Parts, t \in Times :
          records' = Append(records, Record(records, e, d, m, t))
    BY <1>1, Zenon DEF Chain_append
  <2>2. records = original /\ original' = records'
    BY <1>1, Zenon DEF Chain_append
  <2>3. WellMade(Append(records, Record(records, e, d, m, t)))
    BY <1>0, <2>2, StaysWellMade
  <2> DEFINE x == Record(records, e, d, m, t)
  <2> HIDE DEF x
  <2>4. IsSeq(Append(records, x))
    BY <1>0, AppendFacts
  <2> QED BY <1>00, <2>1, <2>2, <2>3, <2>4, Zenon DEF x
<1>2. CASE Chain_reload
  <2> DEFINE back(i) == CHOOSE r \in from_bytes(to_bytes(records[i])) : TRUE
  <2>1. records' = [i \in DOMAIN records |-> back(i)] /\ original' = original
    BY <1>2, Zenon DEF Chain_reload
  <2> HIDE DEF back
  <2>2. Len(records) \in Nat /\ DOMAIN records = 1 .. Len(records)
    BY <1>0, SeqFacts
  <2>3. [i \in 1 .. Len(records) |-> back(i)] \in Seq({back(i) : i \in 1 .. Len(records)})
    BY <2>2
  <2>4. IsSeq(records')
    BY <2>1, <2>2, <2>3, SeqIs
  <2> QED BY <1>0, <1>00, <2>1, <2>4, Zenon
<1>3. CASE Tamper
  <2>1. original' = original
    BY <1>3, Zenon DEF Tamper
  <2>2. PICK i \in DOMAIN records, t \in Times, e \in Events, d \in Parts :
          LET r  == records[i]
              r2 == [r EXCEPT !.event = e, !.data = d, !.header.timestamp_ns = t]
          IN records' \in
               {ReplaceAt(records, i, r2),
                ReplaceAt(records, i, [r2 EXCEPT !.header.content_hash = hash_sha256(Content(r2))]),
                Rebuilt(SubSeq(records, 1, i - 1), <<r2>> \o SubSeq(records, i + 1, Len(records))),
                RemoveAt(records, i)}
    BY <1>3, Zenon DEF Tamper
  <2>3. \A x : IsSeq(ReplaceAt(records, i, x)) /\ IsSeq(RemoveAt(records, i))
    BY <1>0, PutFacts
  <2>4. \A x : IsSeq(Rebuilt(SubSeq(records, 1, i - 1), <<x>> \o SubSeq(records, i + 1, Len(records))))
    <3>1. Len(records) \in Nat /\ i \in 1 .. Len(records)
      BY <1>0, SeqFacts
    <3>2. IsSeq(SubSeq(records, 1, i - 1)) /\ IsSeq(SubSeq(records, i + 1, Len(records)))
      BY <1>0, <3>1, PartFacts
    <3> TAKE x
    <3>3. <<x>> \in Seq({x})
      OBVIOUS
    <3>4. IsSeq(<<x>>)
      BY <3>3, SeqIs
    <3>5. IsSeq(<<x>> \o SubSeq(records, i + 1, Len(records)))
      BY <3>2, <3>4, JoinFacts
    <3> QED BY <3>2, <3>5, RebuiltIsSeq
  <2>5. IsSeq(records')
    BY <2>2, <2>3, <2>4, Zenon
  <2> QED BY <1>0, <1>00, <2>1, <2>5, Zenon
<1>4. CASE UNCHANGED chainVars
  BY <1>0, <1>00, <1>4, Zenon DEF chainVars
<1> QED BY <1>1, <1>2, <1>3, <1>4 DEF ChainNext

LEMMA SealImplied == ChainInv => LastRecordSealsTheChain
<1> SUFFICES ASSUME ChainInv PROVE LastRecordSealsTheChain
  OBVIOUS
<1>0. IsSeq(original) /\ IsSeq(records) /\ WellMade(original)
  BY DEF ChainInv
<1>1. verify(original)
  BY <1>0, WellMadeVerifies
<1>2. records # <<>> /\ original # <<>> /\ verify(records)
      /\ to_bytes(Last(records)) = to_bytes(Last(original)) => Bytes(records) = Bytes(original)
  BY <1>0, <1>1, Sealed
<1>3. ASSUME NEW i \in DOMAIN original
      PROVE  from_bytes(to_bytes(original[i])) = {original[i]} <=> PartsFit(original[i])
  <2> DEFINE before == SubSeq(original, 1, i - 1)
  <2>1. PICK e \in Events, d \in Parts, m \in Parts, t \in Times : original[i] = Record(before, e, d, m, t)
    BY <1>0, Zenon DEF WellMade
  <2> HIDE DEF before
  <2> DEFINE r == Record(before, e, d, m, t)
  <2>2. from_bytes(to_bytes(r)) = {r} <=> PartsFit(r)
    BY ReadsBack
  <2> HIDE DEF r
  <2>3. original[i] = r
    BY <2>1 DEF r
  <2> QED BY <2>2, <2>3, Zenon
<1> QED BY <1>1, <1>2, <1>3, Zenon DEF LastRecordSealsTheChain

\* Whatever is appended, reloaded, changed and rehashed: the bytes of the last
\* record seal the chain, and LastRecordSealsTheChain always holds.
THEOREM LastSeals == ChainSpec => []LastRecordSealsTheChain
BY ChainInvInit, ChainInvNext, SealImplied, PTL DEF ChainSpec

(***************************************************************************)
(* Histories of ticks.                                                     *)
(***************************************************************************)

\* What a world becomes when actions are applied one after the other.
Runs(f, N, start, actions) ==
  f = [s \in SUBSET (1 .. N) |->
         IF s = {} THEN start ELSE apply(f[s \ {Max(s)}], actions[Max(s)])]
Run(actions) == FoldLeft(apply, <<>>, actions)

\* The worlds after each action exist.
LEMMA RunExists ==
  ASSUME NEW N \in Nat, NEW start, NEW actions
  PROVE  \E f : Runs(f, N, start, actions)
<1> DEFINE S == {m \in 0 .. N : \E f : Runs(f, m, start, actions)}
<1>1. 0 \in S
  <2> DEFINE f0 == [s \in SUBSET (1 .. 0) |-> start]
  <2>1. \A s \in SUBSET (1 .. 0) : s = {}
    OBVIOUS
  <2>2. Runs(f0, 0, start, actions)
    BY <2>1 DEF Runs
  <2> QED BY <2>2
<1>2. ASSUME NEW m \in 0 .. N - 1, m \in S PROVE m + 1 \in S
  <2>1. PICK f : Runs(f, m, start, actions)
    BY <1>2
  <2> DEFINE h == [s \in SUBSET (1 .. m + 1) |->
                     IF m + 1 \in s THEN apply(f[s \ {m + 1}], actions[m + 1]) ELSE f[s]]
  <2>2. ASSUME NEW s \in SUBSET (1 .. m + 1)
        PROVE  h[s] = IF s = {} THEN start ELSE apply(h[s \ {Max(s)}], actions[Max(s)])
    <3>1. CASE m + 1 \in s
      <4>1. Max(s) = m + 1
        BY <3>1, MaxIs
      <4>2. s \ {m + 1} \in SUBSET (1 .. m) /\ s \ {m + 1} \in SUBSET (1 .. m + 1)
        OBVIOUS
      <4>3. h[s \ {m + 1}] = f[s \ {m + 1}]
        BY <4>2
      <4> QED BY <3>1, <4>1, <4>3
    <3>2. CASE m + 1 \notin s
      <4>1. s \in SUBSET (1 .. m) /\ h[s] = f[s]
        BY <3>2
      <4>2. f[s] = IF s = {} THEN start ELSE apply(f[s \ {Max(s)}], actions[Max(s)])
        BY <4>1, <2>1 DEF Runs
      <4>3. m + 1 \notin s \ {Max(s)} /\ s \ {Max(s)} \in SUBSET (1 .. m + 1)
        BY <3>2
      <4>4. h[s \ {Max(s)}] = f[s \ {Max(s)}]
        BY <4>3
      <4> QED BY <4>1, <4>2, <4>4
    <3> QED BY <3>1, <3>2
  <2>3. Runs(h, m + 1, start, actions)
    <3>1. h = [s \in SUBSET (1 .. m + 1) |-> h[s]]
      OBVIOUS
    <3> HIDE DEF h
    <3> QED BY <2>2, <3>1 DEF Runs
  <2> HIDE DEF h
  <2> QED BY <2>3
<1>3. \A n \in 0 .. N : n \in S
  <2> HIDE DEF S
  <2> QED BY <1>1, <1>2, UpTo
<1> QED BY <1>3

\* FoldLeft(apply, ...) is the last of them.
LEMMA RunSteps ==
  ASSUME NEW N \in Nat, NEW actions, Len(actions) = N, DOMAIN actions = 1 .. N
  PROVE  \E f : /\ f[1 .. 0] = <<>> /\ Run(actions) = f[1 .. N]
                /\ \A n \in 1 .. N : f[1 .. n] = apply(f[1 .. n - 1], actions[n])
<1> DEFINE IsFold(f) == f = [s \in SUBSET (1 .. N) |->
                               IF s = {} THEN <<>> ELSE apply(f[s \ {Max(s)}], actions[Max(s)])]
           f == CHOOSE f : IsFold(f)
<1>1. \A x : IsFold(x) <=> Runs(x, N, <<>>, actions)
  BY Zenon DEF Runs
<1>2. Run(actions) = f[1 .. N]
  BY DEF Run, FoldLeft, MapThenFoldSet
<1>3. Runs(f, N, <<>>, actions)
  <2>1. \E x : IsFold(x)
    <3> HIDE DEF IsFold
    <3> QED BY <1>1, RunExists
  <2>2. IsFold(f)
    <3> HIDE DEF IsFold
    <3> QED BY <2>1, Zenon
  <2> HIDE DEF IsFold, f
  <2> QED BY <1>1, <2>2
<1> HIDE DEF f, IsFold
<1>4. f[1 .. 0] = <<>>
  <2>1. 1 .. 0 = {} /\ {} \in SUBSET (1 .. N)
    OBVIOUS
  <2> QED BY <1>3, <2>1 DEF Runs
<1>5. ASSUME NEW n \in 1 .. N
      PROVE  f[1 .. n] = apply(f[1 .. n - 1], actions[n])
  <2>1. n \in Nat /\ n # 0 /\ 1 .. n \in SUBSET (1 .. N)
    OBVIOUS
  <2>2. Max(1 .. n) = n /\ (1 .. n) \ {n} = 1 .. n - 1 /\ 1 .. n # {}
    BY <2>1, LastOfFirst
  <2> QED BY <1>3, <2>1, <2>2 DEF Runs
<1> QED BY <1>2, <1>4, <1>5

\* One action more is that action applied to what the others made.
LEMMA RunOfMore ==
  ASSUME NEW N \in Nat, NEW a, DOMAIN a = 1 .. N, Len(a) = N,
         NEW b, DOMAIN b = 1 .. N + 1, Len(b) = N + 1, \A n \in 1 .. N : b[n] = a[n]
  PROVE  Run(b) = apply(Run(a), b[N + 1])
<1>1. PICK f : /\ f[1 .. 0] = <<>> /\ Run(a) = f[1 .. N]
               /\ \A n \in 1 .. N : f[1 .. n] = apply(f[1 .. n - 1], a[n])
  BY RunSteps
<1>2. N + 1 \in Nat
  OBVIOUS
<1>3. PICK h : /\ h[1 .. 0] = <<>> /\ Run(b) = h[1 .. N + 1]
               /\ \A n \in 1 .. N + 1 : h[1 .. n] = apply(h[1 .. n - 1], b[n])
  <2> DEFINE M == N + 1
  <2>1. M \in Nat /\ Len(b) = M /\ DOMAIN b = 1 .. M
    BY <1>2
  <2> HIDE DEF M
  <2>2. \E h : /\ h[1 .. 0] = <<>> /\ Run(b) = h[1 .. M]
               /\ \A n \in 1 .. M : h[1 .. n] = apply(h[1 .. n - 1], b[n])
    BY <2>1, RunSteps
  <2> QED BY <2>2 DEF M
<1> DEFINE S == {n \in 0 .. N : h[1 .. n] = f[1 .. n]}
<1>4. \A n \in 0 .. N : n \in S
  <2>1. 0 \in S
    BY <1>1, <1>3
  <2>2. ASSUME NEW n \in 0 .. N - 1, n \in S PROVE n + 1 \in S
    <3>1. n + 1 \in 1 .. N /\ (n + 1) - 1 = n /\ n + 1 \in 0 .. N /\ n + 1 \in 1 .. N + 1
      OBVIOUS
    <3>2. f[1 .. n + 1] = apply(f[1 .. n], a[n + 1])
      BY <1>1, <3>1
    <3>3. h[1 .. n + 1] = apply(h[1 .. n], b[n + 1])
      BY <1>3, <3>1
    <3> QED BY <2>2, <3>1, <3>2, <3>3
  <2> HIDE DEF S
  <2> QED BY <2>1, <2>2, UpTo
<1>5. h[1 .. N] = f[1 .. N]
  BY <1>4
<1>6. N + 1 \in 1 .. N + 1 /\ (N + 1) - 1 = N
  OBVIOUS
<1>7. h[1 .. N + 1] = apply(h[1 .. N], b[N + 1])
  BY <1>3, <1>6
<1> QED BY <1>1, <1>3, <1>5, <1>7

\* The actions of the first n ticks.
ActionsOf(history, n) == [i \in 1 .. n |-> history[i].action]

LEMMA ActionsFacts ==
  ASSUME NEW history, NEW n \in Nat
  PROVE  /\ DOMAIN ActionsOf(history, n) = 1 .. n /\ Len(ActionsOf(history, n)) = n
         /\ \A i \in 1 .. n : ActionsOf(history, n)[i] = history[i].action
BY DEF ActionsOf

HistoryInv ==
  /\ IsSeq(tick_history)
  /\ current_state = Run(ActionsOf(tick_history, Len(tick_history)))
  /\ \A i \in 1 .. Len(tick_history) :
       tick_history[i] = Tick(i - 1, Run(ActionsOf(tick_history, i - 1)), tick_history[i].action,
                              Run(ActionsOf(tick_history, i)))

LEMMA HistoryInvInit == TicksInit => HistoryInv
<1> SUFFICES ASSUME TicksInit PROVE HistoryInv
  OBVIOUS
<1>1. current_state = <<>> /\ tick_history = <<>>
  BY DEF TicksInit
<1>2. IsSeq(<<>>) /\ Len(<<>>) = 0 /\ DOMAIN <<>> = {} /\ 1 .. 0 = {} /\ 0 \in Nat
  BY DEF IsSeq
<1> DEFINE none == ActionsOf(<<>>, 0)
<1>3. DOMAIN none = 1 .. 0 /\ Len(none) = 0
  BY <1>2, ActionsFacts
<1> HIDE DEF none
<1>4. Run(none) = <<>>
  <2>1. PICK f : f[1 .. 0] = <<>> /\ Run(none) = f[1 .. 0]
    BY <1>2, <1>3, RunSteps
  <2> QED BY <2>1
<1> QED BY <1>1, <1>2, <1>4 DEF HistoryInv, none

LEMMA TickStep ==
  ASSUME HistoryInv, NEW action, advance_tick(action)
  PROVE  HistoryInv'
<1> DEFINE N == Len(tick_history)
           out == apply(current_state, action)
           tick == Tick(N, current_state, action, out)
           more == Append(tick_history, tick)
<1>1. IsSeq(tick_history) /\ N \in Nat /\ DOMAIN tick_history = 1 .. N
  BY SeqFacts DEF HistoryInv
<1>2. tick_history' = more /\ current_state' = out
  BY Zenon DEF advance_tick
<1>3. /\ IsSeq(more) /\ Len(more) = N + 1
      /\ \A k \in 1 .. N : more[k] = tick_history[k]
      /\ more[N + 1] = tick
  BY <1>1, AppendFacts
<1>4. tick.action = action
  BY DEF Tick
<1>5. /\ current_state = Run(ActionsOf(tick_history, N))
      /\ \A i \in 1 .. N :
           tick_history[i] = Tick(i - 1, Run(ActionsOf(tick_history, i - 1)), tick_history[i].action,
                                  Run(ActionsOf(tick_history, i)))
  BY Zenon DEF HistoryInv
<1> HIDE DEF N, more, out
<1>6. \A n \in 0 .. N : ActionsOf(more, n) = ActionsOf(tick_history, n)
  <2> TAKE n \in 0 .. N
  <2>1. \A i \in 1 .. n : more[i].action = tick_history[i].action
    BY <1>1, <1>3
  <2> QED BY <2>1 DEF ActionsOf
<1>7. Run(ActionsOf(more, N + 1)) = out
  <2> DEFINE a == ActionsOf(tick_history, N)
             b == ActionsOf(more, N + 1)
  <2>1. N + 1 \in Nat
    BY <1>1
  <2>2. DOMAIN a = 1 .. N /\ Len(a) = N /\ \A i \in 1 .. N : a[i] = tick_history[i].action
    BY <1>1, ActionsFacts
  <2>3. /\ DOMAIN b = 1 .. N + 1 /\ Len(b) = N + 1
        /\ \A i \in 1 .. N + 1 : b[i] = more[i].action
    <3> HIDE DEF tick
    <3> QED BY <2>1, ActionsFacts, Zenon
  <2> HIDE DEF a, b, tick
  <2>4. \A i \in 1 .. N : i \in 1 .. N + 1
    BY <1>1
  <2>5. \A i \in 1 .. N : b[i] = a[i]
    BY <1>3, <2>2, <2>3, <2>4
  <2>6. N + 1 \in 1 .. N + 1
    BY <1>1
  <2>7. b[N + 1] = action
    BY <1>3, <1>4, <2>3, <2>6
  <2>8. Run(b) = apply(Run(a), action)
    BY <1>1, <2>2, <2>3, <2>5, <2>7, RunOfMore
  <2> QED BY <1>5, <2>8 DEF a, b, out
<1>8. ASSUME NEW i \in 1 .. N + 1
      PROVE  more[i] = Tick(i - 1, Run(ActionsOf(more, i - 1)), more[i].action, Run(ActionsOf(more, i)))
  <2>1. CASE i \in 1 .. N
    <3>1. i - 1 \in 0 .. N /\ i \in 0 .. N
      BY <1>1, <2>1
    <3> HIDE DEF tick
    <3> QED BY <1>3, <1>5, <1>6, <2>1, <3>1
  <2>2. CASE i = N + 1
    <3>1. i - 1 = N /\ N \in 0 .. N
      BY <1>1, <2>2
    <3>2. more[i] = Tick(N, Run(ActionsOf(more, N)), action, Run(ActionsOf(more, N + 1)))
      BY <1>3, <1>5, <1>6, <1>7, <2>2, <3>1
    <3>3. more[i].action = action
      BY <1>3, <1>4, <2>2
    <3> QED BY <2>2, <3>1, <3>2, <3>3
  <2> QED BY <1>1, <2>1, <2>2
<1> HIDE DEF tick
<1>9. Len(more) = N + 1
  BY <1>3
<1> QED BY <1>2, <1>3, <1>7, <1>8, <1>9 DEF HistoryInv, IsSeq

LEMMA HistoryImplied == HistoryInv => HistoryReplays
<1> SUFFICES ASSUME HistoryInv PROVE HistoryReplays
  OBVIOUS
<1> DEFINE N == Len(tick_history)
<1>1. IsSeq(tick_history) /\ N \in Nat /\ DOMAIN tick_history = 1 .. N
  BY SeqFacts DEF HistoryInv
<1>2. \A n : Replay(n) = Run(ActionsOf(tick_history, n))
  BY Zenon DEF Replay, Run, ActionsOf
<1>3. \A i \in 1 .. N :
        tick_history[i] = Tick(i - 1, Replay(i - 1), tick_history[i].action, Replay(i))
  BY <1>2, Zenon DEF HistoryInv
<1>4. current_state = Replay(Len(tick_history))
  BY <1>2, Zenon DEF HistoryInv
<1>5. ASSUME NEW i \in 1 .. N
      PROVE  /\ tick_history[i].sigma_in = Replay(i - 1) /\ tick_history[i].sigma_out = Replay(i)
             /\ tick_history[i].receipt[2] = i - 1
  <2> DEFINE t == tick_history[i]
             x == Replay(i - 1)
             y == Replay(i)
             act == tick_history[i].action
  <2>1. t = Tick(i - 1, x, act, y)
    BY <1>3
  <2> HIDE DEF t, x, y, act
  <2>2. t.sigma_in = x /\ t.sigma_out = y /\ t.receipt = <<"sha256", i - 1, act>>
    BY <2>1 DEF Tick
  <2> QED BY <2>2 DEF t, x, y
<1>6. ASSUME NEW i \in 1 .. N, NEW j \in 1 .. i - 1
      PROVE  tick_history[j].receipt # tick_history[i].receipt
  <2>1. j \in 1 .. N /\ j - 1 # i - 1
    BY <1>1
  <2>2. tick_history[j].receipt[2] = j - 1 /\ tick_history[i].receipt[2] = i - 1
    BY <1>5, <2>1
  <2> QED BY <2>1, <2>2
<1> HIDE DEF N
<1> QED BY <1>1, <1>4, <1>5, <1>6, Zenon DEF HistoryReplays

\* Whatever batches advance_tick is given, of actions that set and remove any
\* facts: running the history again gives every tick's worlds and the current
\* one, and no two receipts are the same.  HistoryReplays always holds.
THEOREM HistoryIsReplayed == TicksSpec => []HistoryReplays
<1>1. HistoryInv /\ [TicksNext]_tickVars => HistoryInv'
  <2> SUFFICES ASSUME HistoryInv, [TicksNext]_tickVars PROVE HistoryInv'
    OBVIOUS
  <2>1. CASE UNCHANGED tickVars
    BY <2>1 DEF tickVars, HistoryInv, IsSeq
  <2>2. CASE TicksNext
    BY <2>2, TickStep, Zenon DEF TicksNext
  <2> QED BY <2>1, <2>2
<1>2. TicksSpec => []HistoryInv
  BY <1>1, HistoryInvInit, PTL DEF TicksSpec
<1> QED BY <1>2, HistoryImplied, PTL

(***************************************************************************)
(* Pictures.                                                               *)
(***************************************************************************)
DrawingOf(t, format) == render_scene(from_theorem(t), format)
Pictured(t, format)  == [theorem |-> t, format |-> format, bytes |-> DrawingOf(t, format)]

SceneAt(name, root, children, bounds) ==
  [name |-> name, root |-> root, children |-> children, bounds |-> bounds]

\* A scene is known by its four parts.
LEMMA SceneAtIs ==
  ASSUME NEW a, NEW r, NEW c, NEW b
  PROVE  SceneAt(a, r, c, b).name = a /\ SceneAt(a, r, c, b).bounds = b
BY DEF SceneAt

\* What a scene is called and how large it is tell it from every other.
LEMMA HeadsTellScenes ==
  ASSUME NEW t, NEW u,
         from_theorem(t).name = from_theorem(u).name, from_theorem(t).bounds = from_theorem(u).bounds
  PROVE  from_theorem(t) = from_theorem(u)
<1> DEFINE q4 == <<-60, -60, 60, 60>>
           l4 == <<-50, -30, 50, 30>>
           w4 == <<-40, -30, 40, 30>>
           o4 == <<0, 0, 100, 100>>
           q == SceneAt("QLG Sphere", Shape("Sphere", 50, 0, "x2 + y2 + z2 = 1"), <<>>, q4)
           l == SceneAt("SLA Balance", Group,
                      <<Shape("Cube", 20, -25, "Debit"), Shape("Cube", 20, 25, "Credit")>>, l4)
           w == SceneAt("Witness Exhaustion", Group, Row("Point", 8, <<"Step 0", "Step 1", "Step 2">>),
                      w4)
           n == SceneAt("NAND Completeness", Group, Row("Cube", 15, <<"NOT", "AND", "OR">>), l4)
           Other(name) == SceneAt(name, [Group EXCEPT !.label = name], <<>>, o4)
<1>1. ASSUME NEW x
      PROVE  \/ from_theorem(x) = q \/ from_theorem(x) = l \/ from_theorem(x) = w \/ from_theorem(x) = n
             \/ from_theorem(x) = Other(x.name)
  <2>1. CASE x.kind = "QLGSphere"
    BY <2>1 DEF from_theorem, Scene, SceneAt
  <2>2. CASE x.kind = "SLABalance"
    BY <2>2 DEF from_theorem, Scene, SceneAt
  <2>3. CASE x.kind = "WitnessExhaustion"
    BY <2>3 DEF from_theorem, Scene, SceneAt
  <2>4. CASE x.kind = "NANDCompleteness"
    BY <2>4 DEF from_theorem, Scene, SceneAt
  <2>5. CASE x.kind \notin {"QLGSphere", "SLABalance", "WitnessExhaustion", "NANDCompleteness"}
    <3> DEFINE g == [Group EXCEPT !.label = x.name]
    <3>1. from_theorem(x) = [Scene(x.name, g, <<>>, 100, 100) EXCEPT !.bounds = <<0, 0, 100, 100>>]
      BY <2>5 DEF from_theorem
    <3> HIDE DEF g
    <3>2. from_theorem(x) = SceneAt(x.name, g, <<>>, <<0, 0, 100, 100>>)
      BY <3>1 DEF Scene, SceneAt
    <3> QED BY <3>2 DEF g
  <2> QED BY <2>1, <2>2, <2>3, <2>4, <2>5
<1>2. q4 # l4 /\ q4 # w4 /\ q4 # o4 /\ l4 # w4 /\ l4 # o4 /\ w4 # o4
  <2>1. q4[1] = -60 /\ l4[1] = -50 /\ w4[1] = -40 /\ o4[1] = 0
    OBVIOUS
  <2> HIDE DEF q4, l4, w4, o4
  <2> QED BY <2>1
<1>3. /\ q.name = "QLG Sphere" /\ q.bounds = q4 /\ l.name = "SLA Balance" /\ l.bounds = l4
      /\ w.name = "Witness Exhaustion" /\ w.bounds = w4
      /\ n.name = "NAND Completeness" /\ n.bounds = l4
      /\ \A name : Other(name).name = name /\ Other(name).bounds = o4
  <2> HIDE DEF q4, l4, w4, o4
  <2>1. q.name = "QLG Sphere" /\ q.bounds = q4
    <3>1. PICK r, c : q = SceneAt("QLG Sphere", r, c, q4)
      BY Zenon DEF q
    <3> HIDE DEF q
    <3>2. SceneAt("QLG Sphere", r, c, q4).name = "QLG Sphere" /\ SceneAt("QLG Sphere", r, c, q4).bounds = q4
      BY DEF SceneAt
    <3> QED BY <3>1, <3>2, Zenon
  <2>2. l.name = "SLA Balance" /\ l.bounds = l4
    <3>1. PICK r, c : l = SceneAt("SLA Balance", r, c, l4)
      BY Zenon DEF l
    <3> HIDE DEF l
    <3>2. SceneAt("SLA Balance", r, c, l4).name = "SLA Balance" /\ SceneAt("SLA Balance", r, c, l4).bounds = l4
      BY DEF SceneAt
    <3> QED BY <3>1, <3>2, Zenon
  <2>3. w.name = "Witness Exhaustion" /\ w.bounds = w4
    <3>1. PICK r, c : w = SceneAt("Witness Exhaustion", r, c, w4)
      BY Zenon DEF w
    <3> HIDE DEF w
    <3>2. SceneAt("Witness Exhaustion", r, c, w4).name = "Witness Exhaustion" /\ SceneAt("Witness Exhaustion", r, c, w4).bounds = w4
      BY DEF SceneAt
    <3> QED BY <3>1, <3>2, Zenon
  <2>4. n.name = "NAND Completeness" /\ n.bounds = l4
    <3>1. PICK r, c : n = SceneAt("NAND Completeness", r, c, l4)
      BY Zenon DEF n
    <3> HIDE DEF n
    <3>2. SceneAt("NAND Completeness", r, c, l4).name = "NAND Completeness" /\ SceneAt("NAND Completeness", r, c, l4).bounds = l4
      BY DEF SceneAt
    <3> QED BY <3>1, <3>2, Zenon
  <2>5. \A name : Other(name).name = name /\ Other(name).bounds = o4
    BY SceneAtIs DEF Other
  <2> QED BY <2>1, <2>2, <2>3, <2>4, <2>5
<1> HIDE DEF q, l, w, n, Other, q4, l4, w4, o4
<1>4. l.name # n.name
  BY <1>3
<1> DEFINE x == from_theorem(t)
           y == from_theorem(u)
<1>5. /\ x = q \/ x = l \/ x = w \/ x = n \/ x = Other(t.name)
      /\ y = q \/ y = l \/ y = w \/ y = n \/ y = Other(u.name)
      /\ x.name = y.name /\ x.bounds = y.bounds
  BY <1>1
<1> HIDE DEF x, y
<1>6. CASE x = Other(t.name)
  <2>1. x.name = t.name /\ x.bounds = o4
    BY <1>3, <1>6
  <2>2. y = Other(u.name)
    BY <1>2, <1>3, <1>5, <2>1
  <2>3. y.name = u.name
    BY <1>3, <2>2
  <2> QED BY <1>5, <1>6, <2>1, <2>2, <2>3 DEF x, y
<1>7. CASE y = Other(u.name)
  <2>1. y.bounds = o4 /\ y.name = u.name
    BY <1>3, <1>7
  <2>2. x = Other(t.name)
    BY <1>2, <1>3, <1>5, <2>1
  <2>3. x.name = t.name
    BY <1>3, <2>2
  <2> QED BY <1>5, <1>7, <2>1, <2>2, <2>3 DEF x, y
<1>8. CASE x \in {q, l, w, n} /\ y \in {q, l, w, n}
  <2>1. CASE x = q
    BY <1>2, <1>3, <1>5, <1>8, <2>1 DEF x, y
  <2>2. CASE x = l
    BY <1>2, <1>3, <1>4, <1>5, <1>8, <2>2 DEF x, y
  <2>3. CASE x = w
    BY <1>2, <1>3, <1>5, <1>8, <2>3 DEF x, y
  <2>4. CASE x = n
    BY <1>2, <1>3, <1>4, <1>5, <1>8, <2>4 DEF x, y
  <2> QED BY <1>8, <2>1, <2>2, <2>3, <2>4
<1> QED BY <1>5, <1>6, <1>7, <1>8

\* What is in the bytes of a picture.
LEMMA PictureIs ==
  ASSUME NEW t, NEW format \in Formats
  PROVE  /\ DrawingOf(t, format).format = format
         /\ DrawingOf(t, format) # NoPicture
         /\ Draws(format) => DrawingOf(t, format).head = <<from_theorem(t).name, from_theorem(t).bounds>>
         /\ ~Draws(format) => DrawingOf(t, format) = Picture(format, <<"specification">>, <<>>)
<1> DEFINE scene == from_theorem(t)
<1> HIDE DEF scene
<1>1. /\ DrawingOf(t, format).format = format
      /\ Draws(format) => DrawingOf(t, format).head = <<scene.name, scene.bounds>>
      /\ ~Draws(format) => DrawingOf(t, format) = Picture(format, <<"specification">>, <<>>)
  <2>1. \A f, h, e : Picture(f, h, e).format = f /\ Picture(f, h, e).head = h
    BY DEF Picture
  <2>2. DrawingOf(t, format) = render_scene(scene, format)
    BY DEF DrawingOf, scene
  <2>3. CASE format = "SVG"
    <3>1. \E e : render_scene(scene, format) = Picture("SVG", <<scene.name, scene.bounds>>, e)
      BY <2>3 DEF render_scene, render_svg
    <3> QED BY <2>1, <2>2, <2>3, <3>1 DEF Draws
  <2>4. CASE format = "Canvas"
    <3>1. \E e : render_scene(scene, format) = Picture("Canvas", <<scene.name, scene.bounds>>, e)
      BY <2>4 DEF render_scene, render_canvas
    <3> QED BY <2>1, <2>2, <2>4, <3>1 DEF Draws
  <2>5. CASE format # "SVG" /\ format # "Canvas"
    <3>1. render_scene(scene, format) = Picture(format, <<"specification">>, <<>>)
      BY <2>5 DEF render_scene
    <3> QED BY <2>1, <2>2, <2>5, <3>1 DEF Draws
  <2> QED BY <2>3, <2>4, <2>5
<1>2. NoPicture.format = "" /\ "" \notin Formats
  BY DEF NoPicture, Picture, Formats
<1> QED BY <1>1, <1>2 DEF scene

\* The same picture is of the same format and, where the scene is drawn, of the same scene.
LEMMA PicturesTell ==
  ASSUME NEW t, NEW u, NEW f \in Formats, NEW g \in Formats, DrawingOf(t, f) = DrawingOf(u, g)
  PROVE  f = g /\ (Draws(f) => from_theorem(t) = from_theorem(u))
<1>1. f = g
  BY PictureIs
<1>2. ASSUME Draws(f) PROVE from_theorem(t) = from_theorem(u)
  <2>1. <<from_theorem(t).name, from_theorem(t).bounds>> = <<from_theorem(u).name, from_theorem(u).bounds>>
    BY <1>1, <1>2, PictureIs
  <2> QED BY <2>1, HeadsTellScenes
<1> QED BY <1>1, <1>2

LEMMA ReceiptIs ==
  ASSUME NEW t, NEW f, NEW bytes
  PROVE  /\ Receipt(t, f, bytes).theorem_name = t.name /\ Receipt(t, f, bytes).format = f
         /\ \A other : verify_receipt(Receipt(t, f, bytes), other) <=> other = bytes
         /\ Receipt(t, f, bytes) # DefaultReceipt /\ ~verify_receipt(DefaultReceipt, bytes)
<1> DEFINE h == sha256(bytes)
           n == Len(bytes.elements)
           r == Receipt(t, f, bytes)
<1>1. r.theorem_name = t.name /\ r.format = f /\ r.hash = h /\ r.size = n
  BY DEF Receipt
<1>2. \A other : sha256(other) = h <=> other = bytes
  BY DEF sha256
<1>3. DefaultReceipt.hash = <<>> /\ h # <<>>
  BY DEF DefaultReceipt, sha256
<1> HIDE DEF h, r
<1>4. \A other : verify_receipt(r, other) <=> other = bytes
  BY <1>1, <1>2 DEF verify_receipt
<1>5. ~verify_receipt(DefaultReceipt, bytes)
  BY <1>3 DEF verify_receipt, h
<1> QED BY <1>1, <1>3, <1>4, <1>5 DEF r

(***************************************************************************)
(* The invariant.                                                          *)
(***************************************************************************)
PipelineSealed(p) ==
  /\ DOMAIN p = {"theorem", "scene", "rendered", "receipt"} /\ p.scene = from_theorem(p.theorem)
  /\ \/ p.rendered = NoPicture /\ p.receipt = DefaultReceipt
     \/ \E f \in Formats : /\ p.rendered = DrawingOf(p.theorem, f)
                           /\ p.receipt = Receipt(p.theorem, f, p.rendered)
ReceiptOf(a) == Receipt(a.theorem, a.format, a.bytes)
GalleryInv ==
  /\ \A a \in gallery : /\ a.format \in Formats /\ a.bytes = DrawingOf(a.theorem, a.format)
                        /\ ReceiptOf(a) \in kept
  /\ \A r \in kept : \E a \in gallery : r = ReceiptOf(a)
ArtInv == PipelineSealed(pipeline) /\ GalleryInv

LEMMA NewPipelineSealed ==
  ASSUME NEW t
  PROVE  PipelineSealed(NewPipeline(t))
BY Zenon DEF PipelineSealed, NewPipeline

LEMMA RenderStep ==
  ASSUME ArtInv, NEW f \in Formats, render(f)
  PROVE  ArtInv'
<1> DEFINE t == pipeline.theorem
           picture == render_scene(pipeline.scene, f)
           r == Receipt(t, f, picture)
           a == [theorem |-> t, format |-> f, bytes |-> picture]
<1>1. /\ pipeline' = [pipeline EXCEPT !.rendered = picture, !.receipt = r]
      /\ gallery' = gallery \cup {a} /\ kept' = kept \cup {pipeline'.receipt}
  BY Zenon DEF render
<1>2. DOMAIN pipeline = {"theorem", "scene", "rendered", "receipt"} /\ pipeline.scene = from_theorem(t)
  BY DEF ArtInv, PipelineSealed
<1>3. picture = DrawingOf(t, f)
  BY <1>2 DEF DrawingOf
<1>4. a.theorem = t /\ a.format = f /\ a.bytes = picture
  OBVIOUS
<1> HIDE DEF picture, r, a
<1>5. /\ DOMAIN pipeline' = {"theorem", "scene", "rendered", "receipt"}
      /\ pipeline'.theorem = t /\ pipeline'.scene = pipeline.scene
      /\ pipeline'.rendered = picture /\ pipeline'.receipt = r
  BY <1>1, <1>2
<1>6. r = Receipt(t, f, picture) /\ r = ReceiptOf(a)
  BY <1>4 DEF r, ReceiptOf
<1> HIDE DEF t
<1>7. PipelineSealed(pipeline)'
  <2>1. pipeline'.theorem = t /\ pipeline'.scene = from_theorem(t)
    BY <1>2, <1>5
  <2>2. pipeline'.rendered = DrawingOf(t, f) /\ pipeline'.receipt = Receipt(t, f, picture)
    BY <1>3, <1>5, <1>6
  <2> QED BY <1>5, <2>1, <2>2 DEF PipelineSealed
<1>8. gallery' = gallery \cup {a} /\ kept' = kept \cup {r}
  BY <1>1, <1>5
<1>9. GalleryInv'
  <2>1. \A b \in gallery : /\ b.format \in Formats /\ b.bytes = DrawingOf(b.theorem, b.format)
                           /\ ReceiptOf(b) \in kept
    BY DEF ArtInv, GalleryInv
  <2>2. \A s \in kept : \E b \in gallery : s = ReceiptOf(b)
    BY DEF ArtInv, GalleryInv
  <2>3. a.format \in Formats /\ a.bytes = DrawingOf(a.theorem, a.format)
    BY <1>3, <1>4
  <2> QED BY <1>6, <1>8, <2>1, <2>2, <2>3 DEF GalleryInv
<1> QED BY <1>7, <1>9 DEF ArtInv

LEMMA ReceiptsImplied == ArtInv => ReceiptsSealPictures
<1> SUFFICES ASSUME ArtInv PROVE ReceiptsSealPictures
  OBVIOUS
<1>1. \A a \in gallery : /\ a.format \in Formats /\ a.bytes = DrawingOf(a.theorem, a.format)
                         /\ ReceiptOf(a) \in kept
  BY DEF ArtInv, GalleryInv
<1>2. \A r \in kept : \E a \in gallery : r = ReceiptOf(a)
  BY DEF ArtInv, GalleryInv
<1>3. /\ pipeline.rendered = NoPicture => pipeline.receipt = DefaultReceipt
      /\ pipeline.rendered # NoPicture => verify_receipt(pipeline.receipt, pipeline.rendered)
  BY PictureIs, ReceiptIs DEF ArtInv, PipelineSealed
<1>4. \A a : ~verify_receipt(DefaultReceipt, a)
  BY ReceiptIs
<1>5. \A a \in gallery : \E r \in kept : verify_receipt(r, a.bytes)
  BY <1>1, ReceiptIs DEF ReceiptOf
<1>6. ASSUME NEW r \in kept, NEW a \in gallery
      PROVE  /\ verify_receipt(r, a.bytes) => a.format = r.format /\ (Draws(a.format) => SameScene(r, a))
             /\ a.format = r.format /\ ~Draws(a.format) => verify_receipt(r, a.bytes)
  <2>1. PICK b \in gallery : r = ReceiptOf(b)
    BY <1>2
  <2>2. /\ r.theorem_name = b.theorem.name /\ r.format = b.format
        /\ verify_receipt(r, a.bytes) <=> a.bytes = b.bytes
    BY <2>1, ReceiptIs DEF ReceiptOf
  <2>3. /\ a.format \in Formats /\ a.bytes = DrawingOf(a.theorem, a.format)
        /\ b.format \in Formats /\ b.bytes = DrawingOf(b.theorem, b.format)
    BY <1>1
  <2>4. ASSUME a.bytes = b.bytes
        PROVE  a.format = b.format /\ (Draws(a.format) => SameScene(r, a))
    <3>1. DrawingOf(a.theorem, a.format) = DrawingOf(b.theorem, b.format)
      BY <2>3, <2>4
    <3>2. a.format = b.format /\ (Draws(a.format) => from_theorem(a.theorem) = from_theorem(b.theorem))
      BY <2>3, <3>1, PicturesTell
    <3> QED BY <2>2, <3>2, Zenon DEF SameScene
  <2>5. ASSUME a.format = b.format, ~Draws(a.format)
        PROVE  a.bytes = b.bytes
    BY <2>3, <2>5, PictureIs
  <2> QED BY <2>2, <2>4, <2>5
<1> QED BY <1>3, <1>4, <1>5, <1>6, Zenon DEF ReceiptsSealPictures

\* Whatever theorems a pipeline is given and in whatever formats it renders
\* them: a receipt it makes verifies the pictures of its own format and scene,
\* and outside SVG and Canvas those of every scene.  ReceiptsSealPictures always
\* holds.
THEOREM ReceiptsSeal == ArtSpec => []ReceiptsSealPictures
<1>1. ArtInit => ArtInv
  <2> SUFFICES ASSUME ArtInit PROVE ArtInv
    OBVIOUS
  <2>1. PICK t \in Theorems : pipeline = NewPipeline(t)
    BY DEF ArtInit
  <2>2. gallery = {} /\ kept = {}
    BY DEF ArtInit
  <2> QED BY <2>1, <2>2, NewPipelineSealed DEF ArtInv, GalleryInv
<1>2. ArtInv /\ [ArtNext]_artVars => ArtInv'
  <2> SUFFICES ASSUME ArtInv, [ArtNext]_artVars PROVE ArtInv'
    OBVIOUS
  <2>1. CASE UNCHANGED artVars
    BY <2>1 DEF artVars, ArtInv, PipelineSealed, GalleryInv
  <2>2. ASSUME NEW t \in Theorems, Replace(t) PROVE ArtInv'
    <3>1. pipeline' = NewPipeline(t) /\ UNCHANGED <<gallery, kept>>
      BY <2>2 DEF Replace
    <3>2. PipelineSealed(pipeline)'
      <4>1. PipelineSealed(NewPipeline(t))
        BY NewPipelineSealed
      <4> QED BY <3>1, <4>1 DEF PipelineSealed
    <3>3. GalleryInv'
      BY <3>1 DEF ArtInv, GalleryInv
    <3> QED BY <3>2, <3>3 DEF ArtInv
  <2> QED BY <2>1, <2>2, RenderStep, Zenon DEF ArtNext
<1>3. ArtSpec => []ArtInv
  BY <1>1, <1>2, PTL DEF ArtSpec
<1> QED BY <1>3, ReceiptsImplied, PTL

(***************************************************************************)
(* The objects of hyperkitty-continuity.  Beside the property: a nonce has *)
(* been seen when it has been used, and the records have their own fields. *)
(***************************************************************************)
SeenAreUsed ==
  \A nonce \in Nonces : nonce \in seen <=> CallsAt("nonce", nonce) # {}
MemoryIsPartial == /\ memory = [data |-> memory.data, version |-> memory.version]
                   /\ chain = [seed |-> GenesisSeed, index |-> chain.index]
\* The parts of UsesAreRemembered.
BitsAreTheLast ==
  \A position \in Positions :
    get_bit(position) <=> position < MaskBits /\ \E k \in DOMAIN uses :
                            IsLast(k, CallsAt("set", position)) /\ uses[k].answer
NoncesAreOnce ==
  \A nonce \in Nonces : \A k \in CallsAt("nonce", nonce) :
    uses[k].answer <=> \A j \in CallsAt("nonce", nonce) : k <= j
ReadsAreTheLast ==
  \A key \in SharedKeys :
    read(key) = {uses[k].answer : k \in {j \in DOMAIN uses : IsLast(j, CallsAt("write", key))}}
WritesAreCounted   == memory.version = Cardinality(Calls("write"))
AdvancesAreCounted == /\ chain.index = Cardinality(Calls("advance"))
                      /\ \A k \in Calls("advance") : uses[k].answer = chain.seed
ContinuityInv == /\ IsSeq(uses) /\ SeenAreUsed /\ MemoryIsPartial
                 /\ IsFiniteSet(Calls("write")) /\ IsFiniteSet(Calls("advance"))
                 /\ UsesAreRemembered

\* A call joins the calls of its kind, and of its place, as the last of them.
LEMMA UseStep ==
  ASSUME IsSeq(uses), NEW call, NEW at, NEW answer, Use(call, at, answer)
  PROVE  /\ IsSeq(uses') /\ Len(uses) + 1 \in Nat
         /\ DOMAIN uses = 1 .. Len(uses) /\ DOMAIN uses' = 1 .. Len(uses) + 1
         /\ \A k \in 1 .. Len(uses) : uses'[k] = uses[k]
         /\ uses'[Len(uses) + 1] = [call |-> call, at |-> at, answer |-> answer]
         /\ \A c : Calls(c)' = IF c = call THEN Calls(c) \cup {Len(uses) + 1} ELSE Calls(c)
         /\ CallsAt(call, at)' = CallsAt(call, at) \cup {Len(uses) + 1}
         /\ \A c, a : ~ (c = call /\ a = at) => CallsAt(c, a)' = CallsAt(c, a)
<1> DEFINE n == Len(uses)
<1>1. uses' = Append(uses, [call |-> call, at |-> at, answer |-> answer])
  BY DEF Use
<1>2. n \in Nat /\ DOMAIN uses = 1 .. n
  BY SeqFacts
<1>3. /\ IsSeq(uses') /\ DOMAIN uses' = 1 .. n + 1
      /\ (\A k \in 1 .. n : uses'[k] = uses[k])
      /\ uses'[n + 1] = [call |-> call, at |-> at, answer |-> answer]
  BY <1>1, AppendFacts
<1> HIDE DEF n
<1>4. uses'[n + 1].call = call /\ uses'[n + 1].at = at
  BY <1>3
<1>5. DOMAIN uses' = DOMAIN uses \cup {n + 1} /\ n + 1 \notin DOMAIN uses
  BY <1>2, <1>3
<1>6. ASSUME NEW c PROVE Calls(c)' = IF c = call THEN Calls(c) \cup {n + 1} ELSE Calls(c)
  BY <1>2, <1>3, <1>4, <1>5 DEF Calls
<1>7. ASSUME NEW c, NEW a
      PROVE  CallsAt(c, a)' = IF c = call /\ a = at THEN CallsAt(c, a) \cup {n + 1} ELSE CallsAt(c, a)
  <2>1. \A k \in Calls(c) : k \in 1 .. n /\ uses'[k] = uses[k]
    BY <1>2, <1>3 DEF Calls
  <2> QED BY <1>2, <1>4, <1>6, <2>1 DEF CallsAt
<1>8. /\ CallsAt(call, at)' = CallsAt(call, at) \cup {n + 1}
      /\ \A c, a : ~ (c = call /\ a = at) => CallsAt(c, a)' = CallsAt(c, a)
  BY <1>7
<1> QED BY <1>2, <1>3, <1>6, <1>8 DEF n

\* Who was the last stays the last until a later call, which is then the last.
LEMMA LastIs ==
  ASSUME NEW n \in Nat, NEW S \in SUBSET (1 .. n)
  PROVE  \A k : IsLast(k, S \cup {n + 1}) <=> k = n + 1
<1>1. \A j \in S \cup {n + 1} : j \in Nat /\ j <= n + 1
  OBVIOUS
<1>2. \A k \in S \cup {n + 1} : n + 1 <= k => k = n + 1
  BY <1>1
<1> QED BY <1>1, <1>2, Zenon DEF IsLast

LEMMA CallsAreEarlier ==
  ASSUME IsSeq(uses), NEW c, NEW a
  PROVE  /\ Calls(c) \in SUBSET (1 .. Len(uses)) /\ CallsAt(c, a) \in SUBSET (1 .. Len(uses))
         /\ Len(uses) \in Nat
BY SeqFacts DEF Calls, CallsAt

LEMMA PartsOfRemembered ==
  UsesAreRemembered <=> /\ BitsAreTheLast /\ NoncesAreOnce /\ ReadsAreTheLast
                        /\ WritesAreCounted /\ AdvancesAreCounted
BY Zenon DEF UsesAreRemembered, BitsAreTheLast, NoncesAreOnce, ReadsAreTheLast,
             WritesAreCounted, AdvancesAreCounted

\* A part whose calls do not grow and whose object does not change stays true.
LEMMA OthersStay ==
  ASSUME ContinuityInv, NEW call, NEW at, NEW answer, Use(call, at, answer)
  PROVE  /\ call # "set" /\ mask' = mask => BitsAreTheLast'
         /\ call # "nonce" /\ seen' = seen => NoncesAreOnce' /\ SeenAreUsed'
         /\ call # "write" /\ memory' = memory =>
              ReadsAreTheLast' /\ WritesAreCounted' /\ IsFiniteSet(Calls("write"))'
         /\ call # "advance" /\ chain' = chain =>
              AdvancesAreCounted' /\ IsFiniteSet(Calls("advance"))'
<1> DEFINE n == Len(uses)
<1>1. IsSeq(uses)
  BY DEF ContinuityInv
<1>2. /\ n \in Nat /\ DOMAIN uses = 1 .. n /\ DOMAIN uses' = 1 .. n + 1
      /\ \A k \in 1 .. n : uses'[k] = uses[k]
      /\ \A c : c # call => Calls(c)' = Calls(c)
      /\ \A c, a : c # call => CallsAt(c, a)' = CallsAt(c, a)
      /\ \A c, a : Calls(c) \in SUBSET (1 .. n) /\ CallsAt(c, a) \in SUBSET (1 .. n)
  <2>1. DOMAIN uses = 1 .. n /\ DOMAIN uses' = 1 .. n + 1
    BY <1>1, UseStep
  <2>4. \A k \in 1 .. n : uses'[k] = uses[k]
    BY <1>1, UseStep
  <2>5. \A c : Calls(c)' = IF c = call THEN Calls(c) \cup {n + 1} ELSE Calls(c)
    BY <1>1, UseStep
  <2>6. \A c, a : ~ (c = call /\ a = at) => CallsAt(c, a)' = CallsAt(c, a)
    <3> HIDE DEF n
    <3> QED BY <1>1, UseStep, ZenonT(60)
  <2>2. n \in Nat
    BY <1>1, SeqFacts
  <2>3. \A c, a : Calls(c) \in SUBSET (1 .. n) /\ CallsAt(c, a) \in SUBSET (1 .. n)
    BY <1>1, CallsAreEarlier, Zenon
  <2> HIDE DEF n
  <2> QED BY <2>1, <2>2, <2>3, <2>4, <2>5, <2>6
<1> HIDE DEF n
<1>3. ASSUME call # "set", mask' = mask PROVE BitsAreTheLast'
  <2>1. ASSUME NEW position \in Positions
        PROVE  get_bit(position)' <=> position < MaskBits /\ \E k \in DOMAIN uses' :
                                 IsLast(k, CallsAt("set", position)') /\ uses'[k].answer
    <3>1. get_bit(position)' <=> get_bit(position)
      BY <1>3 DEF get_bit
    <3>2. get_bit(position) <=> position < MaskBits /\ \E k \in DOMAIN uses :
                                 IsLast(k, CallsAt("set", position)) /\ uses[k].answer
      BY PartsOfRemembered DEF ContinuityInv, BitsAreTheLast
    <3>3. CallsAt("set", position)' = CallsAt("set", position)
      BY <1>2, <1>3
    <3>4. \A k : IsLast(k, CallsAt("set", position)) => k \in 1 .. n
      BY <1>2 DEF IsLast
    <3> QED BY <1>2, <3>1, <3>2, <3>3, <3>4
  <2> QED BY <2>1 DEF BitsAreTheLast, IsLast
<1>4. ASSUME call # "nonce", seen' = seen PROVE NoncesAreOnce' /\ SeenAreUsed'
  <2>1. \A nonce : CallsAt("nonce", nonce)' = CallsAt("nonce", nonce)
    BY <1>2, <1>4
  <2>2. SeenAreUsed'
    BY <1>4, <2>1 DEF ContinuityInv, SeenAreUsed
  <2>3. \A nonce \in Nonces : \A k \in CallsAt("nonce", nonce) : uses'[k] = uses[k]
    BY <1>2
  <2>4. NoncesAreOnce
    BY PartsOfRemembered DEF ContinuityInv
  <2>5. NoncesAreOnce'
    BY <2>1, <2>3, <2>4 DEF NoncesAreOnce
  <2> QED BY <2>2, <2>5
<1>5. ASSUME call # "write", memory' = memory
      PROVE  ReadsAreTheLast' /\ WritesAreCounted' /\ IsFiniteSet(Calls("write"))'
  <2>1. Calls("write")' = Calls("write") /\ \A key : CallsAt("write", key)' = CallsAt("write", key)
    BY <1>2, <1>5
  <2>2. ReadsAreTheLast /\ WritesAreCounted
    BY PartsOfRemembered DEF ContinuityInv
  <2>3. ASSUME NEW key \in SharedKeys
        PROVE  read(key)' = {uses'[k].answer : k \in {j \in DOMAIN uses' : IsLast(j, CallsAt("write", key)')}}
    <3>1. read(key)' = read(key)
      BY <1>5 DEF read
    <3>2. {j \in DOMAIN uses' : IsLast(j, CallsAt("write", key)')}
          = {j \in DOMAIN uses : IsLast(j, CallsAt("write", key))}
      BY <1>2, <2>1 DEF IsLast
    <3>3. \A k \in {j \in DOMAIN uses : IsLast(j, CallsAt("write", key))} : uses'[k] = uses[k]
      BY <1>2
    <3>4. read(key) = {uses[k].answer : k \in {j \in DOMAIN uses : IsLast(j, CallsAt("write", key))}}
      BY <2>2 DEF ReadsAreTheLast
    <3> QED BY <3>1, <3>2, <3>3, <3>4
  <2>4. ReadsAreTheLast'
    BY <2>3, Zenon DEF ReadsAreTheLast, IsLast
  <2> QED BY <1>5, <2>1, <2>2, <2>4 DEF WritesAreCounted, ContinuityInv
<1>6. ASSUME call # "advance", chain' = chain
      PROVE  AdvancesAreCounted' /\ IsFiniteSet(Calls("advance"))'
  <2>1. Calls("advance")' = Calls("advance") /\ \A k \in Calls("advance") : uses'[k] = uses[k]
    BY <1>2, <1>6
  <2>2. AdvancesAreCounted
    BY PartsOfRemembered DEF ContinuityInv
  <2> QED BY <1>6, <2>1, <2>2 DEF AdvancesAreCounted, ContinuityInv
<1> QED BY <1>3, <1>4, <1>5, <1>6

\* The last of the calls of a kind at a place.
Lasts(c, a) == {k \in DOMAIN uses : IsLast(k, CallsAt(c, a))}

\* After a call, it is the last one of its kind at its place; the last ones of
\* others stay.
LEMMA LastsStep ==
  ASSUME IsSeq(uses), NEW call, NEW at, NEW answer, Use(call, at, answer)
  PROVE  /\ Lasts(call, at)' = {Len(uses) + 1} /\ uses'[Len(uses) + 1].answer = answer
         /\ \A a : a # at => /\ Lasts(call, a)' = Lasts(call, a)
                            /\ \A k \in Lasts(call, a) : uses'[k] = uses[k]
<1> DEFINE n == Len(uses)
<1>1. n \in Nat /\ DOMAIN uses = 1 .. n /\ DOMAIN uses' = 1 .. n + 1
  BY UseStep, SeqFacts
<1>2. \A k \in 1 .. n : uses'[k] = uses[k]
  BY UseStep
<1>3. uses'[n + 1] = [call |-> call, at |-> at, answer |-> answer]
  BY UseStep
<1>4. CallsAt(call, at)' = CallsAt(call, at) \cup {n + 1}
  BY UseStep
<1>5. \A c, a : ~ (c = call /\ a = at) => CallsAt(c, a)' = CallsAt(c, a)
  <2> HIDE DEF n
  <2> QED BY UseStep, ZenonT(60)
<1>6. \A c, a : CallsAt(c, a) \in SUBSET (1 .. n)
  BY CallsAreEarlier
<1> HIDE DEF n
<1>7. Lasts(call, at)' = {n + 1}
  <2>1. \A k : IsLast(k, CallsAt(call, at) \cup {n + 1}) <=> k = n + 1
    BY <1>1, <1>6, LastIs
  <2>2. n + 1 \in DOMAIN uses'
    BY <1>1
  <2>3. Lasts(call, at)' = {k \in DOMAIN uses' : IsLast(k, CallsAt(call, at)')}
    BY DEF Lasts, IsLast
  <2>4. Lasts(call, at)' = {k \in DOMAIN uses' : IsLast(k, CallsAt(call, at) \cup {n + 1})}
    BY <1>4, <2>3
  <2> QED BY <2>1, <2>2, <2>4
<1>8. ASSUME NEW a, a # at
      PROVE  Lasts(call, a)' = Lasts(call, a) /\ \A k \in Lasts(call, a) : uses'[k] = uses[k]
  <2>1. Lasts(call, a)' = {k \in DOMAIN uses' : IsLast(k, CallsAt(call, a)')}
    BY DEF Lasts, IsLast
  <2>2. CallsAt(call, a)' = CallsAt(call, a)
    BY <1>5, <1>8
  <2>3. Lasts(call, a)' = {k \in DOMAIN uses' : IsLast(k, CallsAt(call, a))}
    BY <2>1, <2>2
  <2>4. \A k : IsLast(k, CallsAt(call, a)) => k \in 1 .. n
    BY <1>6 DEF IsLast
  <2> QED BY <1>1, <1>2, <2>3, <2>4 DEF Lasts
<1>9. uses'[n + 1].answer = answer
  BY <1>3
<1> QED BY <1>7, <1>8, <1>9 DEF n

\* Setting a bit makes the value the last one set at its place.
LEMMA SetStep ==
  ASSUME ContinuityInv, NEW position \in Positions, NEW value \in BOOLEAN,
         set_bit(position, value)
  PROVE  BitsAreTheLast'
<1> DEFINE n == Len(uses)
<1>1. IsSeq(uses) /\ Use("set", position, value)
  BY DEF ContinuityInv, set_bit
<1>2. Lasts("set", position)' = {n + 1} /\ uses'[n + 1].answer = value
  BY <1>1, LastsStep
<1>3. \A a : a # position => /\ Lasts("set", a)' = Lasts("set", a)
                             /\ \A k \in Lasts("set", a) : uses'[k] = uses[k]
  BY <1>1, LastsStep
<1> HIDE DEF n
<1>4. \A p \in Positions : p \in Nat
  BY ContinuityBounds
<1>5. \A p \in Positions : p < MaskBits <=> ~ (p >= MaskBits)
  BY <1>4, ContinuityBounds
<1>6. mask' = IF position >= MaskBits THEN mask
             ELSE IF value THEN mask \cup {position} ELSE mask \ {position}
  BY DEF set_bit
<1>7. ASSUME NEW p \in Positions
      PROVE  get_bit(p)' <=> p < MaskBits /\ \E k \in Lasts("set", p)' : uses'[k].answer
  <2>1. CASE p = position
    <3>1. get_bit(p)' <=> p < MaskBits /\ value
      BY <1>5, <1>6, <2>1, Zenon DEF get_bit
    <3>2. (\E k \in Lasts("set", p)' : uses'[k].answer) <=> value
      BY <1>2, <2>1, Zenon
    <3> QED BY <3>1, <3>2
  <2>2. CASE p # position
    <3>1. get_bit(p)' <=> get_bit(p)
      BY <1>6, <2>2 DEF get_bit
    <3>2. get_bit(p) <=> p < MaskBits /\ \E k \in Lasts("set", p) : uses[k].answer
      BY PartsOfRemembered DEF ContinuityInv, BitsAreTheLast, Lasts
    <3> QED BY <1>3, <2>2, <3>1, <3>2
  <2> QED BY <2>1, <2>2
<1> QED BY <1>7 DEF BitsAreTheLast, Lasts, IsLast

\* A nonce is new exactly the first time it is used.
LEMMA NonceStep ==
  ASSUME ContinuityInv, NEW nonce \in Nonces, check_and_register(nonce)
  PROVE  NoncesAreOnce' /\ SeenAreUsed'
<1> DEFINE n == Len(uses)
<1>1. IsSeq(uses) /\ Use("nonce", nonce, nonce \notin seen)
  BY DEF ContinuityInv, check_and_register
<1>2. n \in Nat /\ \A c, a : CallsAt(c, a) \in SUBSET (1 .. n)
  BY <1>1, CallsAreEarlier
<1>3. \A k \in 1 .. n : uses'[k] = uses[k]
  BY <1>1, UseStep
<1>4. uses'[n + 1].answer = (nonce \notin seen)
  BY <1>1, LastsStep, Zenon
<1>5. CallsAt("nonce", nonce)' = CallsAt("nonce", nonce) \cup {n + 1}
  BY <1>1, UseStep
<1>6. \A c, a : ~ (c = "nonce" /\ a = nonce) => CallsAt(c, a)' = CallsAt(c, a)
  <2> HIDE DEF n
  <2> QED BY <1>1, UseStep, ZenonT(60)
<1> HIDE DEF n
<1>7. seen' = seen \cup {nonce}
  BY DEF check_and_register
<1>8. SeenAreUsed /\ NoncesAreOnce
  BY PartsOfRemembered DEF ContinuityInv
<1>9. SeenAreUsed'
  BY <1>5, <1>6, <1>7, <1>8 DEF SeenAreUsed
<1>10. ASSUME NEW m \in Nonces, NEW k \in CallsAt("nonce", m)'
       PROVE  uses'[k].answer <=> \A j \in CallsAt("nonce", m)' : k <= j
  <2>1. CASE m # nonce
    <3>1. CallsAt("nonce", m)' = CallsAt("nonce", m)
      BY <1>6, <2>1
    <3> QED BY <1>2, <1>3, <1>8, <1>10, <3>1 DEF NoncesAreOnce
  <2>2. CASE m = nonce /\ k # n + 1
    <3>1. k \in CallsAt("nonce", m) /\ k \in 1 .. n
      BY <1>2, <1>5, <1>10, <2>2
    <3>2. uses'[k].answer <=> \A j \in CallsAt("nonce", m) : k <= j
      BY <1>3, <1>8, <3>1 DEF NoncesAreOnce
    <3> QED BY <1>2, <1>5, <2>2, <3>1, <3>2
  <2>3. CASE m = nonce /\ k = n + 1
    <3>1. (\A j \in CallsAt("nonce", m)' : k <= j) <=> CallsAt("nonce", m) = {}
      BY <1>2, <1>5, <2>3
    <3>2. (CallsAt("nonce", m) = {}) <=> m \notin seen
      BY <1>8 DEF SeenAreUsed
    <3>3. uses'[k].answer = (m \notin seen)
      BY <1>4, <2>3, Zenon
    <3> QED BY <3>1, <3>2, <3>3, Zenon
  <2> QED BY <2>1, <2>2, <2>3
<1> QED BY <1>9, <1>10 DEF NoncesAreOnce

\* A write is what its key reads from then on, and one more version.
LEMMA WriteStep ==
  ASSUME ContinuityInv, NEW key \in SharedKeys, NEW value \in SharedValues, write(key, value)
  PROVE  /\ ReadsAreTheLast' /\ WritesAreCounted' /\ IsFiniteSet(Calls("write"))'
         /\ MemoryIsPartial'
<1> DEFINE n == Len(uses)
<1>1. IsSeq(uses) /\ Use("write", key, value)
  BY DEF ContinuityInv, write
<1>2. Lasts("write", key)' = {n + 1} /\ uses'[n + 1].answer = value
  BY <1>1, LastsStep
<1>3. \A a : a # key => /\ Lasts("write", a)' = Lasts("write", a)
                        /\ \A k \in Lasts("write", a) : uses'[k] = uses[k]
  BY <1>1, LastsStep
<1>4. Calls("write")' = Calls("write") \cup {n + 1} /\ n + 1 \notin Calls("write")
  <2>1. Calls("write") \in SUBSET (1 .. n) /\ n \in Nat
    BY <1>1, CallsAreEarlier
  <2>2. Calls("write")' = Calls("write") \cup {n + 1}
    BY <1>1, UseStep
  <2> HIDE DEF n
  <2> QED BY <2>1, <2>2
<1> HIDE DEF n
<1>5. /\ memory'.data = [k \in DOMAIN memory.data \cup {key} |->
                           IF k = key THEN value ELSE memory.data[k]]
      /\ memory'.version = memory.version + 1
      /\ memory' = [data |-> memory'.data, version |-> memory'.version]
      /\ chain' = chain
  BY DEF write
<1>6. ReadsAreTheLast /\ WritesAreCounted /\ IsFiniteSet(Calls("write")) /\ MemoryIsPartial
  BY PartsOfRemembered DEF ContinuityInv
<1>7. ASSUME NEW c \in SharedKeys
      PROVE  read(c)' = {uses'[k].answer : k \in Lasts("write", c)'}
  <2>1. CASE c = key
    <3>1. read(c)' = {value}
      BY <1>5, <2>1 DEF read
    <3> QED BY <1>2, <2>1, <3>1
  <2>2. CASE c # key
    <3>1. read(c)' = read(c)
      BY <1>5, <2>2 DEF read
    <3>2. read(c) = {uses[k].answer : k \in Lasts("write", c)}
      BY <1>6 DEF ReadsAreTheLast, Lasts
    <3> QED BY <1>3, <2>2, <3>1, <3>2
  <2> QED BY <2>1, <2>2
<1>8. ReadsAreTheLast'
  BY <1>7 DEF ReadsAreTheLast, Lasts, IsLast
<1>9. /\ IsFiniteSet(Calls("write") \cup {n + 1})
      /\ Cardinality(Calls("write") \cup {n + 1}) = Cardinality(Calls("write")) + 1
  BY <1>4, <1>6, FS_AddElement
<1> QED BY <1>4, <1>5, <1>6, <1>8, <1>9 DEF WritesAreCounted, MemoryIsPartial

\* An advance is one more index, and answers the seed.
LEMMA AdvanceStep ==
  ASSUME ContinuityInv, advance
  PROVE  AdvancesAreCounted' /\ IsFiniteSet(Calls("advance"))' /\ MemoryIsPartial'
<1> DEFINE n == Len(uses)
<1>1. IsSeq(uses) /\ Use("advance", GenesisSeed, chain.seed)
  BY DEF ContinuityInv, advance
<1>2. Calls("advance") \in SUBSET (1 .. n) /\ n \in Nat
  BY <1>1, CallsAreEarlier
<1>3. Calls("advance")' = Calls("advance") \cup {n + 1}
  BY <1>1, UseStep
<1>4. \A k \in 1 .. n : uses'[k] = uses[k]
  BY <1>1, UseStep
<1>5. uses'[n + 1].answer = chain.seed
  BY <1>1, LastsStep, Zenon
<1> HIDE DEF n
<1>6. AdvancesAreCounted /\ IsFiniteSet(Calls("advance")) /\ MemoryIsPartial
  BY PartsOfRemembered DEF ContinuityInv
<1>7. /\ chain'.seed = chain.seed /\ chain'.index = chain.index + 1 /\ memory' = memory
      /\ chain' = [seed |-> GenesisSeed, index |-> chain'.index]
  <2>1. chain = [seed |-> GenesisSeed, index |-> chain.index]
    BY <1>6 DEF MemoryIsPartial
  <2> DEFINE x == chain.index
  <2>2. chain = [seed |-> GenesisSeed, index |-> x]
    BY <2>1
  <2> HIDE DEF x
  <2> QED BY <2>2 DEF advance
<1>8. n + 1 \notin Calls("advance")
  BY <1>2
<1>9. /\ IsFiniteSet(Calls("advance") \cup {n + 1})
      /\ Cardinality(Calls("advance") \cup {n + 1}) = Cardinality(Calls("advance")) + 1
  BY <1>6, <1>8, FS_AddElement
<1>10. \A k \in Calls("advance")' : uses'[k].answer = chain'.seed
  BY <1>2, <1>3, <1>4, <1>5, <1>6, <1>7 DEF AdvancesAreCounted
<1>11. chain'.index = Cardinality(Calls("advance")')
  BY <1>3, <1>6, <1>7, <1>9 DEF AdvancesAreCounted
<1> QED BY <1>3, <1>6, <1>7, <1>9, <1>10, <1>11 DEF AdvancesAreCounted, MemoryIsPartial

LEMMA ContinuityInvInit == ContinuityInit => ContinuityInv
<1> SUFFICES ASSUME ContinuityInit PROVE ContinuityInv
  OBVIOUS
<1>1. uses = <<>> /\ DOMAIN uses = {} /\ IsSeq(uses)
  BY DEF ContinuityInit, IsSeq
<1>2. \A c, a : Calls(c) = {} /\ CallsAt(c, a) = {}
  BY <1>1 DEF Calls, CallsAt
<1>3. \A c, a, k : ~ IsLast(k, CallsAt(c, a))
  BY <1>2 DEF IsLast
<1>4. /\ mask = {} /\ seen = {} /\ memory = [data |-> <<>>, version |-> 0]
      /\ chain = [seed |-> GenesisSeed, index |-> 0]
  BY DEF ContinuityInit
<1>5. BitsAreTheLast
  BY <1>1, <1>4 DEF BitsAreTheLast, get_bit
<1>6. NoncesAreOnce /\ SeenAreUsed
  BY <1>2, <1>4 DEF NoncesAreOnce, SeenAreUsed
<1>7. ASSUME NEW key \in SharedKeys
      PROVE  read(key) = {uses[k].answer : k \in {j \in DOMAIN uses : IsLast(j, CallsAt("write", key))}}
  <2>1. read(key) = {}
    BY <1>4 DEF read
  <2> QED BY <1>1, <2>1
<1>8. IsFiniteSet({}) /\ Cardinality({}) = 0
  BY FS_EmptySet
<1>9. WritesAreCounted /\ AdvancesAreCounted /\ IsFiniteSet(Calls("write")) /\ IsFiniteSet(Calls("advance"))
  BY <1>2, <1>4, <1>8 DEF WritesAreCounted, AdvancesAreCounted
<1>10. MemoryIsPartial
  BY <1>4 DEF MemoryIsPartial
<1>11. ReadsAreTheLast
  BY <1>7 DEF ReadsAreTheLast
<1> QED BY <1>1, <1>5, <1>6, <1>9, <1>10, <1>11, PartsOfRemembered DEF ContinuityInv

LEMMA NextPartsOfRemembered ==
  UsesAreRemembered' <=> /\ BitsAreTheLast' /\ NoncesAreOnce' /\ ReadsAreTheLast'
                         /\ WritesAreCounted' /\ AdvancesAreCounted'
BY PartsOfRemembered, PTL

LEMMA ContinuityInvNext == ContinuityInv /\ [ContinuityNext]_continuityVars => ContinuityInv'
<1> SUFFICES ASSUME ContinuityInv, [ContinuityNext]_continuityVars PROVE ContinuityInv'
  OBVIOUS
<1>0. ASSUME NEW call, NEW at, NEW answer, Use(call, at, answer) PROVE IsSeq(uses)'
  BY <1>0, UseStep DEF ContinuityInv, IsSeq
<1>1. ASSUME NEW position \in Positions, NEW value \in BOOLEAN, set_bit(position, value)
      PROVE  ContinuityInv'
  <2>1. Use("set", position, value) /\ seen' = seen /\ memory' = memory /\ chain' = chain
    BY <1>1 DEF set_bit
  <2>2. BitsAreTheLast'
    BY <1>1, SetStep
  <2>3. /\ NoncesAreOnce' /\ SeenAreUsed' /\ ReadsAreTheLast' /\ WritesAreCounted'
        /\ AdvancesAreCounted' /\ IsFiniteSet(Calls("write"))' /\ IsFiniteSet(Calls("advance"))'
    BY <2>1, OthersStay
  <2>4. MemoryIsPartial'
    BY <2>1 DEF ContinuityInv, MemoryIsPartial
  <2> QED BY <1>0, <2>1, <2>2, <2>3, <2>4, NextPartsOfRemembered DEF ContinuityInv
<1>2. ASSUME NEW nonce \in Nonces, check_and_register(nonce) PROVE ContinuityInv'
  <2>1. Use("nonce", nonce, nonce \notin seen) /\ mask' = mask /\ memory' = memory /\ chain' = chain
    BY <1>2 DEF check_and_register
  <2>2. NoncesAreOnce' /\ SeenAreUsed'
    BY <1>2, NonceStep
  <2>3. /\ BitsAreTheLast' /\ ReadsAreTheLast' /\ WritesAreCounted'
        /\ AdvancesAreCounted' /\ IsFiniteSet(Calls("write"))' /\ IsFiniteSet(Calls("advance"))'
    BY <2>1, OthersStay
  <2>4. MemoryIsPartial'
    BY <2>1 DEF ContinuityInv, MemoryIsPartial
  <2> QED BY <1>0, <2>1, <2>2, <2>3, <2>4, NextPartsOfRemembered DEF ContinuityInv
<1>3. ASSUME NEW key \in SharedKeys, NEW value \in SharedValues, write(key, value)
      PROVE  ContinuityInv'
  <2>1. Use("write", key, value) /\ mask' = mask /\ seen' = seen /\ chain' = chain
    BY <1>3 DEF write
  <2>2. /\ ReadsAreTheLast' /\ WritesAreCounted' /\ IsFiniteSet(Calls("write"))'
        /\ MemoryIsPartial'
    BY <1>3, WriteStep
  <2>3. /\ BitsAreTheLast' /\ NoncesAreOnce' /\ SeenAreUsed'
        /\ AdvancesAreCounted' /\ IsFiniteSet(Calls("advance"))'
    BY <2>1, OthersStay
  <2> QED BY <1>0, <2>1, <2>2, <2>3, NextPartsOfRemembered DEF ContinuityInv
<1>4. ASSUME advance PROVE ContinuityInv'
  <2>1. Use("advance", GenesisSeed, chain.seed) /\ mask' = mask /\ seen' = seen /\ memory' = memory
    BY <1>4 DEF advance
  <2>2. AdvancesAreCounted' /\ IsFiniteSet(Calls("advance"))' /\ MemoryIsPartial'
    BY <1>4, AdvanceStep
  <2>3. /\ BitsAreTheLast' /\ NoncesAreOnce' /\ SeenAreUsed' /\ ReadsAreTheLast'
        /\ WritesAreCounted' /\ IsFiniteSet(Calls("write"))'
    BY <2>1, OthersStay
  <2> QED BY <1>0, <2>1, <2>2, <2>3, NextPartsOfRemembered DEF ContinuityInv
<1>5. CASE UNCHANGED continuityVars
  <2>1. mask' = mask /\ seen' = seen /\ memory' = memory /\ chain' = chain /\ uses' = uses
    BY <1>5 DEF continuityVars
  <2>2. \A c, a : Calls(c)' = Calls(c) /\ CallsAt(c, a)' = CallsAt(c, a)
    BY <2>1 DEF Calls, CallsAt
  <2>3. IsSeq(uses)' /\ SeenAreUsed' /\ MemoryIsPartial'
    BY <2>1, <2>2 DEF ContinuityInv, IsSeq, SeenAreUsed, MemoryIsPartial
  <2>4. IsFiniteSet(Calls("write"))' /\ IsFiniteSet(Calls("advance"))'
    BY <2>2 DEF ContinuityInv
  <2>5. UsesAreRemembered'
    BY <2>1 DEF ContinuityInv, UsesAreRemembered, get_bit, read, IsLast, Calls, CallsAt
  <2> QED BY <2>3, <2>4, <2>5 DEF ContinuityInv
<1> QED BY <1>1, <1>2, <1>3, <1>4, <1>5 DEF ContinuityNext

\* Whatever is called and in whichever order, every object of the crates
\* remembers exactly its own calls: UsesAreRemembered always holds.
THEOREM UsesRemembered == ContinuitySpec => []UsesAreRemembered
<1>1. ContinuityInv => UsesAreRemembered
  BY DEF ContinuityInv
<1> QED BY <1>1, ContinuityInvInit, ContinuityInvNext, PTL DEF ContinuitySpec

(***************************************************************************)
(* The wire text of a message: where its fields lie.                       *)
(***************************************************************************)

\* The characters between the fields.
Colon     == ":"
Comma     == ","
Opening   == "{"
Closing   == "}"
Backslash == "\\"

\* The characters between the fields are no quotes, keys or digits.
LEMMA MarksDiffer ==
  /\ Colon # "quote" /\ Comma # "quote" /\ Opening # "quote" /\ Closing # "quote" /\ Backslash # "quote"
  /\ Comma # Colon /\ Comma \notin Numerals /\ "quote" \notin Numerals
  /\ \A key \in Heads \cup {"corr", "body"} : key \notin {"quote", Colon, Comma}
<1>1. \A x : x \in Numerals <=> x = "0" \/ x = "7" \/ x = "8"
  BY Zenon DEF Numerals
<1>2. \A x : x \in Heads \cup {"corr", "body"} <=>
         x = "type" \/ x = "from" \/ x = "to" \/ x = "topic" \/ x = "corr" \/ x = "body"
  BY Zenon DEF Heads
<1>3. /\ Colon # "quote" /\ Comma # "quote" /\ Opening # "quote" /\ Closing # "quote" /\ Backslash # "quote"
      /\ Comma # Colon
  BY Zenon DEF Colon, Comma, Opening, Closing, Backslash
<1>4. Comma \notin Numerals /\ "quote" \notin Numerals
  <2>1. Comma # "0" /\ Comma # "7" /\ Comma # "8"
    BY Zenon DEF Comma
  <2>2. "quote" # "0" /\ "quote" # "7" /\ "quote" # "8"
    OBVIOUS
  <2> QED BY <1>1, <2>1, <2>2, Zenon
<1>5. \A key \in Heads \cup {"corr", "body"} : key \notin {"quote", Colon, Comma}
  BY <1>2, Zenon DEF Colon, Comma
<1> QED BY <1>3, <1>4, <1>5

\* Where a needle is in a text, place by place.
NeedleAt(text, k, needle) ==
  /\ k + Len(needle) - 1 <= Len(text)
  /\ \A i \in 1 .. Len(needle) : text[k + i - 1] = needle[i]

\* What is a beginning of a sequence, element by element.
LEMMA BeginsThere ==
  ASSUME NEW s, IsSeq(s), NEW t, IsSeq(t)
  PROVE  IsPrefix(s, t) <=> Len(s) <= Len(t) /\ \A i \in 1 .. Len(s) : t[i] = s[i]
<1>1. Len(s) \in Nat /\ Len(t) \in Nat
  BY SeqFacts
<1>2. SubSeq(s, 1, Len(s)) = s
  <2> DEFINE p == SubSeq(s, 1, Len(s))
  <2>1. IsSeq(p) /\ Len(p) = Len(s) /\ \A i \in 1 .. Len(s) : p[i] = s[i]
    BY <1>1, PartFacts
  <2> QED BY <2>1, SameSeq
<1>3. CASE Len(s) <= Len(t)
  <2> DEFINE q == SubSeq(t, 1, Len(s))
  <2>1. IsSeq(q) /\ Len(q) = Len(s) /\ \A i \in 1 .. Len(s) : q[i] = t[i]
    BY <1>1, <1>3, PartFacts
  <2>2. s = q <=> \A i \in 1 .. Len(s) : t[i] = s[i]
    <3> HIDE DEF q
    <3>1. ASSUME \A i \in 1 .. Len(s) : t[i] = s[i] PROVE s = q
      BY <2>1, <3>1, SameSeq
    <3> QED BY <2>1, <3>1
  <2> QED BY <1>2, <1>3, <2>2 DEF IsPrefix
<1> QED BY <1>1, <1>3 DEF IsPrefix

\* A needle begins a rest of the text where its characters are.
LEMMA FoundAt ==
  ASSUME NEW text, IsSeq(text), NEW needle, IsSeq(needle), NEW k \in 1 .. Len(text)
  PROVE  IsPrefix(needle, SubSeq(text, k, Len(text))) <=> NeedleAt(text, k, needle)
<1> DEFINE rest == SubSeq(text, k, Len(text))
<1>1. Len(text) \in Nat /\ Len(needle) \in Nat
  BY SeqFacts
<1>2. /\ IsSeq(rest) /\ Len(rest) = Len(text) - k + 1
      /\ \A i \in 1 .. Len(text) - k + 1 : rest[i] = text[k + i - 1]
  BY <1>1, PartFacts
<1>3. IsPrefix(needle, rest) <=> Len(needle) <= Len(rest) /\ \A i \in 1 .. Len(needle) : rest[i] = needle[i]
  BY <1>2, BeginsThere
<1> HIDE DEF rest
<1> QED
  <2>1. Len(needle) <= Len(rest) <=> k + Len(needle) - 1 <= Len(text)
    BY <1>1, <1>2
  <2>2. Len(needle) <= Len(rest) => \A i \in 1 .. Len(needle) : rest[i] = text[k + i - 1]
    BY <1>1, <1>2
  <2>3. IsPrefix(needle, rest) <=> NeedleAt(text, k, needle)
    BY <1>3, <2>1, <2>2 DEF NeedleAt
  <2> QED BY <2>3 DEF rest

\* The first place of a set of places, or 0.
LEMMA FirstPlaceIs ==
  ASSUME NEW S \in SUBSET Nat, NEW p \in S, \A k \in S : p <= k
  PROVE  FirstOf(S) = p
<1>1. Min(S) \in S /\ \A j \in S : Min(S) <= j
  BY MinIsLeast
<1>2. Min(S) \in Nat /\ p \in Nat /\ Min(S) <= p /\ p <= Min(S)
  BY <1>1
<1>3. Min(S) = p
  BY <1>2
<1> QED BY <1>3 DEF FirstOf

\* Find gives the first place of the needle.
LEMMA FindIs ==
  ASSUME NEW text, IsSeq(text), NEW needle, IsSeq(needle), Len(needle) > 0, NEW p \in Nat \ {0},
         \A k \in 1 .. p - 1 : ~NeedleAt(text, k, needle)
  PROVE  /\ NeedleAt(text, p, needle) => Find(text, needle) = p
         /\ p + Len(needle) - 1 > Len(text) => Find(text, needle) = 0
<1> DEFINE S == {k \in DOMAIN text : IsPrefix(needle, SubSeq(text, k, Len(text)))}
<1>1. Len(text) \in Nat /\ Len(needle) \in Nat /\ DOMAIN text = 1 .. Len(text)
  BY SeqFacts
<1>2. S \in SUBSET Nat /\ \A k : k \in S <=> k \in 1 .. Len(text) /\ NeedleAt(text, k, needle)
  BY <1>1, FoundAt
<1>3. Find(text, needle) = FirstOf(S)
  BY DEF Find
<1> HIDE DEF S
<1>4. \A k \in S : p <= k
  BY <1>1, <1>2
<1>5. ASSUME NeedleAt(text, p, needle) PROVE Find(text, needle) = p
  <2>0. p + Len(needle) - 1 <= Len(text)
    BY <1>5 DEF NeedleAt
  <2>1. p \in S
    BY <1>1, <1>2, <1>5, <2>0
  <2> QED BY <1>2, <1>3, <1>4, <2>1, FirstPlaceIs
<1>6. ASSUME p + Len(needle) - 1 > Len(text) PROVE Find(text, needle) = 0
  <2>1. S = {}
    BY <1>1, <1>2, <1>4, <1>6 DEF NeedleAt
  <2> QED BY <1>3, <2>1 DEF FirstOf
<1> QED BY <1>5, <1>6

\* A quoted field.
QuotedAt(t, a, f, v) ==
  /\ a + 5 + Len(v) <= Len(t)
  /\ t[a] = "quote" /\ t[a + 1] = f /\ t[a + 2] = "quote" /\ t[a + 3] = Colon /\ t[a + 4] = "quote"
  /\ \A i \in 1 .. Len(v) : t[a + 4 + i] = v[i]
  /\ t[a + 5 + Len(v)] = "quote"

\* Written out sequences are sequences.
LEMMA ShortSeqs ==
  ASSUME NEW a, NEW b, NEW c, NEW d, NEW e
  PROVE  IsSeq(<<a>>) /\ IsSeq(<<a, b, c, d>>) /\ IsSeq(<<a, b, c, d, e>>)
<1>1. <<a>> \in Seq({a, b, c, d, e}) /\ <<a, b, c, d>> \in Seq({a, b, c, d, e})
      /\ <<a, b, c, d, e>> \in Seq({a, b, c, d, e})
  OBVIOUS
<1> QED BY <1>1, SeqIs

\* A key, character by character.
LEMMA KeyFacts ==
  ASSUME NEW f
  PROVE  /\ IsSeq(KeyOf(f)) /\ Len(KeyOf(f)) = 4
         /\ KeyOf(f)[1] = "quote" /\ KeyOf(f)[2] = f /\ KeyOf(f)[3] = "quote" /\ KeyOf(f)[4] = Colon
<1>1. \A a, b, c, d : /\ IsSeq(<<a, b, c, d>>) /\ Len(<<a, b, c, d>>) = 4 /\ <<a, b, c, d>>[1] = a
                       /\ <<a, b, c, d>>[2] = b /\ <<a, b, c, d>>[3] = c /\ <<a, b, c, d>>[4] = d
  BY ShortSeqs
<1> QED BY <1>1, Zenon DEF KeyOf, Colon

\* A key with the quote of its value.
LEMMA QuotedKeyFacts ==
  ASSUME NEW f
  PROVE  LET k == KeyOf(f) \o <<"quote">> IN
         /\ IsSeq(k) /\ Len(k) = 5 /\ k[1] = "quote" /\ k[2] = f /\ k[3] = "quote" /\ k[4] = Colon
         /\ k[5] = "quote"
<1> DEFINE q == <<"quote">>
           k == KeyOf(f) \o q
<1>1. IsSeq(q) /\ Len(q) = 1 /\ q[1] = "quote"
  BY ShortSeqs
<1>2. /\ IsSeq(k) /\ Len(k) = Len(KeyOf(f)) + Len(q)
      /\ \A i \in 1 .. Len(KeyOf(f)) + Len(q) :
           k[i] = IF i <= Len(KeyOf(f)) THEN KeyOf(f)[i] ELSE q[i - Len(KeyOf(f))]
  <2> HIDE DEF q
  <2>1. IsSeq(KeyOf(f))
    BY KeyFacts
  <2> QED BY <1>1, <2>1, JoinFacts
<1> HIDE DEF k, q
<1>3. /\ IsSeq(k) /\ Len(k) = 5 /\ k[1] = "quote" /\ k[2] = f /\ k[3] = "quote" /\ k[4] = Colon
      /\ k[5] = "quote"
  BY <1>1, <1>2, KeyFacts
<1> QED BY <1>3 DEF k, q

\* A written field is a field at place 1.
LEMMA QuotedFacts ==
  ASSUME NEW f, NEW v, IsSeq(v)
  PROVE  IsSeq(Quoted(f, v)) /\ Len(Quoted(f, v)) = Len(v) + 6 /\ QuotedAt(Quoted(f, v), 1, f, v)
<1> DEFINE q == <<"quote">>
           k == KeyOf(f) \o q
           kv == k \o v
           t == kv \o q
<1>1. IsSeq(q) /\ Len(q) = 1 /\ q[1] = "quote"
  BY ShortSeqs
<1>2. /\ IsSeq(k) /\ Len(k) = 5 /\ k[1] = "quote" /\ k[2] = f /\ k[3] = "quote" /\ k[4] = Colon
      /\ k[5] = "quote"
  BY QuotedKeyFacts
<1>3. Quoted(f, v) = t
  BY DEF Quoted
<1> HIDE DEF q, k
<1>4. /\ IsSeq(kv) /\ Len(kv) = Len(k) + Len(v)
      /\ \A i \in 1 .. Len(k) + Len(v) : kv[i] = IF i <= Len(k) THEN k[i] ELSE v[i - Len(k)]
  BY <1>2, JoinFacts
<1> HIDE DEF kv
<1>5. /\ IsSeq(t) /\ Len(t) = Len(kv) + Len(q)
      /\ \A i \in 1 .. Len(kv) + Len(q) : t[i] = IF i <= Len(kv) THEN kv[i] ELSE q[i - Len(kv)]
  BY <1>1, <1>4, JoinFacts
<1> HIDE DEF t
<1>6. Len(v) \in Nat
  BY SeqFacts
<1>7. Len(t) = Len(v) + 6 /\ \A i \in 1 .. Len(v) + 5 : t[i] = kv[i]
  BY <1>1, <1>2, <1>4, <1>5, <1>6
<1>8. t[6 + Len(v)] = "quote"
  BY <1>1, <1>2, <1>4, <1>5, <1>6
<1>9. \A i \in 1 .. 5 : t[i] = k[i]
  BY <1>2, <1>4, <1>6, <1>7
<1>10. \A i \in 1 .. Len(v) : t[5 + i] = v[i]
  BY <1>2, <1>4, <1>6, <1>7
<1>11. QuotedAt(t, 1, f, v)
  BY <1>2, <1>6, <1>7, <1>8, <1>9, <1>10 DEF QuotedAt
<1> QED BY <1>3, <1>5, <1>7, <1>11

\* A text that goes on as another one began.
Continues(t, s) == Len(s) <= Len(t) /\ \A i \in 1 .. Len(s) : t[i] = s[i]

FieldAt(t, a, f, v, c) ==
  QuotedAt(t, a, f, v) /\ a + 6 + Len(v) <= Len(t) /\ t[a + 6 + Len(v)] = c

\* What two texts put together are.
LEMMA JoinedText ==
  ASSUME NEW s, IsSeq(s), NEW t, IsSeq(t)
  PROVE  /\ IsSeq(s \o t) /\ Len(s \o t) = Len(s) + Len(t) /\ Continues(s \o t, s)
         /\ \A i \in 1 .. Len(t) : (s \o t)[Len(s) + i] = t[i]
<1>1. Len(s) \in Nat /\ Len(t) \in Nat
  BY SeqFacts
<1>2. /\ IsSeq(s \o t) /\ Len(s \o t) = Len(s) + Len(t)
      /\ \A i \in 1 .. Len(s) + Len(t) :
           (s \o t)[i] = IF i <= Len(s) THEN s[i] ELSE t[i - Len(s)]
  BY JoinFacts
<1>3. Continues(s \o t, s)
  BY <1>1, <1>2 DEF Continues
<1>4. ASSUME NEW i \in 1 .. Len(t) PROVE (s \o t)[Len(s) + i] = t[i]
  <2>1. Len(s) + i \in 1 .. Len(s) + Len(t) /\ ~(Len(s) + i <= Len(s)) /\ (Len(s) + i) - Len(s) = i
    BY <1>1
  <2> QED BY <1>2, <2>1
<1> QED BY <1>2, <1>3, <1>4

\* A field moves with the text it is in.
LEMMA FieldMoves ==
  ASSUME NEW s, IsSeq(s), NEW t, IsSeq(t), NEW f, NEW v, IsSeq(v), QuotedAt(t, 1, f, v)
  PROVE  QuotedAt(s \o t, Len(s) + 1, f, v)
<1> DEFINE u == s \o t
           n == Len(s)
<1>1. n \in Nat /\ Len(t) \in Nat /\ Len(v) \in Nat
  BY SeqFacts
<1>2. Len(u) = n + Len(t) /\ \A i \in 1 .. Len(t) : u[n + i] = t[i]
  BY JoinedText
<1> HIDE DEF u, n
<1>3. /\ 1 + 5 + Len(v) <= Len(t)
      /\ t[1] = "quote" /\ t[1 + 1] = f /\ t[1 + 2] = "quote" /\ t[1 + 3] = Colon /\ t[1 + 4] = "quote"
      /\ \A i \in 1 .. Len(v) : t[1 + 4 + i] = v[i]
      /\ t[1 + 5 + Len(v)] = "quote"
  BY DEF QuotedAt
<1>4. /\ (n + 1) + 5 + Len(v) <= Len(u)
      /\ u[n + 1] = "quote" /\ u[(n + 1) + 1] = f /\ u[(n + 1) + 2] = "quote" /\ u[(n + 1) + 3] = Colon
      /\ u[(n + 1) + 4] = "quote" /\ u[(n + 1) + 5 + Len(v)] = "quote"
  <2>1. n + 1 + 5 + Len(v) <= Len(u)
    BY <1>1, <1>2, <1>3
  <2>2. /\ 1 \in 1 .. Len(t) /\ 2 \in 1 .. Len(t) /\ 3 \in 1 .. Len(t) /\ 4 \in 1 .. Len(t)
        /\ 5 \in 1 .. Len(t) /\ 6 + Len(v) \in 1 .. Len(t)
    BY <1>1, <1>3
  <2>3. /\ u[n + 1] = t[1] /\ u[n + 2] = t[2] /\ u[n + 3] = t[3] /\ u[n + 4] = t[4] /\ u[n + 5] = t[5]
        /\ u[n + (6 + Len(v))] = t[6 + Len(v)]
    BY <1>2, <2>2
  <2>4. /\ (n + 1) + 1 = n + 2 /\ (n + 1) + 2 = n + 3 /\ (n + 1) + 3 = n + 4 /\ (n + 1) + 4 = n + 5
        /\ (n + 1) + 5 + Len(v) = n + (6 + Len(v)) /\ 1 + 5 + Len(v) = 6 + Len(v)
    BY <1>1
  <2> QED BY <1>3, <2>1, <2>3, <2>4
<1>5. ASSUME NEW i \in 1 .. Len(v) PROVE u[(n + 1) + 4 + i] = v[i]
  <2>1. 5 + i \in 1 .. Len(t) /\ (n + 1) + 4 + i = n + (5 + i) /\ 1 + 4 + i = 5 + i
    BY <1>1, <1>3
  <2> QED BY <1>2, <1>3, <2>1
<1>6. QuotedAt(u, n + 1, f, v)
  BY <1>4, <1>5 DEF QuotedAt
<1> QED BY <1>6 DEF u, n

\* A field stays where it is when the text goes on.
LEMMA QuotedStays ==
  ASSUME NEW s, IsSeq(s), NEW t, IsSeq(t), Continues(t, s), NEW a \in Nat \ {0}, NEW f, NEW v, IsSeq(v),
         QuotedAt(s, a, f, v)
  PROVE  QuotedAt(t, a, f, v)
<1>1. Len(s) \in Nat /\ Len(t) \in Nat /\ Len(v) \in Nat
  BY SeqFacts
<1>2. \A i \in 1 .. Len(s) : t[i] = s[i]
  BY DEF Continues
<1>3. /\ a + 5 + Len(v) <= Len(s)
      /\ s[a] = "quote" /\ s[a + 1] = f /\ s[a + 2] = "quote" /\ s[a + 3] = Colon /\ s[a + 4] = "quote"
      /\ \A i \in 1 .. Len(v) : s[a + 4 + i] = v[i]
      /\ s[a + 5 + Len(v)] = "quote"
  BY DEF QuotedAt
<1>4. /\ a + 5 + Len(v) <= Len(t)
      /\ t[a] = "quote" /\ t[a + 1] = f /\ t[a + 2] = "quote" /\ t[a + 3] = Colon /\ t[a + 4] = "quote"
      /\ t[a + 5 + Len(v)] = "quote"
  <2>1. /\ a \in 1 .. Len(s) /\ a + 1 \in 1 .. Len(s) /\ a + 2 \in 1 .. Len(s) /\ a + 3 \in 1 .. Len(s)
        /\ a + 4 \in 1 .. Len(s) /\ a + 5 + Len(v) \in 1 .. Len(s) /\ Len(s) <= Len(t)
    BY <1>1, <1>3 DEF Continues
  <2> QED BY <1>1, <1>2, <1>3, <2>1
<1>5. ASSUME NEW i \in 1 .. Len(v) PROVE t[a + 4 + i] = v[i]
  <2>1. a + 4 + i \in 1 .. Len(s)
    BY <1>1, <1>3
  <2> QED BY <1>2, <1>3, <2>1
<1> QED BY <1>4, <1>5 DEF QuotedAt

\* So it does with the character behind it.
LEMMA FieldStays ==
  ASSUME NEW s, IsSeq(s), NEW t, IsSeq(t), Continues(t, s), NEW a \in Nat \ {0}, NEW f, NEW v, IsSeq(v),
         NEW c, FieldAt(s, a, f, v, c)
  PROVE  FieldAt(t, a, f, v, c)
<1>1. Len(s) \in Nat /\ Len(t) \in Nat /\ Len(v) \in Nat
  BY SeqFacts
<1>2. QuotedAt(t, a, f, v)
  BY QuotedStays DEF FieldAt
<1>3. a + 6 + Len(v) <= Len(s) /\ s[a + 6 + Len(v)] = c
  BY DEF FieldAt
<1>4. a + 6 + Len(v) \in 1 .. Len(s)
  BY <1>1, <1>3
<1> QED BY <1>1, <1>2, <1>3, <1>4 DEF FieldAt, Continues

\* Beginnings of beginnings are beginnings.
LEMMA ContinuesOn ==
  ASSUME NEW s, IsSeq(s), NEW t, IsSeq(t), NEW u, IsSeq(u), Continues(t, s), Continues(u, t)
  PROVE  Continues(u, s)
<1>1. Len(s) \in Nat /\ Len(t) \in Nat /\ Len(u) \in Nat
  BY SeqFacts
<1> QED BY <1>1 DEF Continues

\* One more field, and the character behind it.
LEMMA FieldAdded ==
  ASSUME NEW s, IsSeq(s), NEW f, NEW v, IsSeq(v), NEW c
  PROVE  LET t == s \o Quoted(f, v) \o <<c>> IN
         /\ IsSeq(t) /\ Len(t) = Len(s) + Len(v) + 7 /\ Continues(t, s)
         /\ FieldAt(t, Len(s) + 1, f, v, c)
<1> DEFINE q == Quoted(f, v)
           sq == s \o q
           e == <<c>>
           t == sq \o e
<1>1. IsSeq(q) /\ Len(q) = Len(v) + 6 /\ QuotedAt(q, 1, f, v)
  BY QuotedFacts
<1>2. IsSeq(e) /\ Len(e) = 1 /\ e[1] = c
  BY ShortSeqs
<1>0. Len(v) \in Nat /\ Len(s) \in Nat
  BY SeqFacts
<1> HIDE DEF q, e
<1>3. IsSeq(sq) /\ Len(sq) = Len(s) + Len(v) + 6 /\ Continues(sq, s)
  <2>1. IsSeq(sq) /\ Len(sq) = Len(s) + Len(q) /\ Continues(sq, s)
    BY <1>1, JoinedText
  <2> QED BY <1>0, <1>1, <2>1
<1>4. QuotedAt(sq, Len(s) + 1, f, v)
  BY <1>1, FieldMoves
<1> HIDE DEF sq
<1>5. IsSeq(t) /\ Len(t) = Len(sq) + 1 /\ Continues(t, sq) /\ t[Len(sq) + 1] = c
  <2>1. /\ IsSeq(t) /\ Len(t) = Len(sq) + Len(e) /\ Continues(t, sq)
        /\ \A i \in 1 .. Len(e) : t[Len(sq) + i] = e[i]
    <3>1. IsSeq(sq) /\ IsSeq(e)
      BY <1>2, <1>3
    <3> QED BY <3>1, JoinedText
  <2> QED BY <1>2, <2>1
<1> HIDE DEF t
<1>6. Continues(t, s)
  BY <1>3, <1>5, ContinuesOn
<1>7. QuotedAt(t, Len(s) + 1, f, v)
  BY <1>0, <1>3, <1>4, <1>5, QuotedStays
<1>8. FieldAt(t, Len(s) + 1, f, v, c)
  <2>1. (Len(s) + 1) + 6 + Len(v) = Len(sq) + 1
    BY <1>0, <1>3
  <2> QED BY <1>0, <1>5, <1>7, <2>1, <1>3 DEF FieldAt
<1>9. IsSeq(t) /\ Len(t) = Len(s) + Len(v) + 7 /\ Continues(t, s) /\ FieldAt(t, Len(s) + 1, f, v, c)
  BY <1>0, <1>3, <1>5, <1>6, <1>8
<1> QED BY <1>9 DEF t, sq, q, e

\* Where each field of a message begins.
Field(m) ==
  LET type == 2
      from == type + 7 + Len(m.type)
      to   == from + 7 + Len(m.from)
      topic == to + 7 + Len(m.to)
      corr == topic + 7 + Len(m.topic)
  IN [type |-> type, from |-> from, to |-> to, topic |-> topic, corr |-> corr,
      body |-> corr + 5 + Len(m.corr)]

FieldTexts(m) == /\ IsSeq(m.type) /\ IsSeq(m.from) /\ IsSeq(m.to) /\ IsSeq(m.topic) /\ IsSeq(m.body)
            /\ IsSeq(m.corr)

NumberAt(t, a, v) ==
  /\ a + 4 + Len(v) <= Len(t)
  /\ t[a] = "quote" /\ t[a + 1] = "corr" /\ t[a + 2] = "quote" /\ t[a + 3] = Colon
  /\ \A i \in 1 .. Len(v) : t[a + 3 + i] = v[i]
  /\ t[a + 4 + Len(v)] = Comma

\* The number added to a text.
LEMMA NumberAdded ==
  ASSUME NEW s, IsSeq(s), NEW v, IsSeq(v)
  PROVE  LET t == s \o KeyOf("corr") \o v \o <<Comma>> IN
         /\ IsSeq(t) /\ Len(t) = Len(s) + 5 + Len(v) /\ Continues(t, s)
         /\ NumberAt(t, Len(s) + 1, v)
<1> DEFINE k == KeyOf("corr")
           sk == s \o k
           skv == sk \o v
           e == <<Comma>>
           t == skv \o e
<1>0. Len(v) \in Nat /\ Len(s) \in Nat
  BY SeqFacts
<1>1. IsSeq(k) /\ Len(k) = 4 /\ k[1] = "quote" /\ k[2] = "corr" /\ k[3] = "quote" /\ k[4] = Colon
  BY KeyFacts
<1>2. IsSeq(e) /\ Len(e) = 1 /\ e[1] = Comma
  BY ShortSeqs
<1> HIDE DEF k, e
<1>3. /\ IsSeq(sk) /\ Len(sk) = Len(s) + Len(k) /\ Continues(sk, s)
      /\ \A i \in 1 .. Len(k) : sk[Len(s) + i] = k[i]
  <2>1. IsSeq(k)
    BY <1>1
  <2> QED BY <2>1, JoinedText
<1> HIDE DEF sk
<1>4. /\ IsSeq(skv) /\ Len(skv) = Len(sk) + Len(v) /\ Continues(skv, sk)
      /\ \A i \in 1 .. Len(v) : skv[Len(sk) + i] = v[i]
  <2>1. IsSeq(sk)
    BY <1>3
  <2> QED BY <2>1, JoinedText
<1> HIDE DEF skv
<1>5. /\ IsSeq(t) /\ Len(t) = Len(skv) + Len(e) /\ Continues(t, skv)
      /\ \A i \in 1 .. Len(e) : t[Len(skv) + i] = e[i]
  <2>1. IsSeq(skv) /\ IsSeq(e)
    BY <1>2, <1>4
  <2> QED BY <2>1, JoinedText
<1> HIDE DEF t
<1>6. Continues(t, s)
  BY <1>3, <1>4, <1>5, ContinuesOn
<1>7. Len(sk) = Len(s) + 4 /\ Len(skv) = Len(s) + 4 + Len(v) /\ Len(t) = Len(s) + 5 + Len(v)
  <2>1. Len(sk) = Len(s) + Len(k) /\ Len(k) = 4
    BY <1>1, <1>3
  <2>2. Len(skv) = Len(sk) + Len(v)
    BY <1>4
  <2>3. Len(t) = Len(skv) + Len(e) /\ Len(e) = 1
    BY <1>2, <1>5
  <2>4. Len(sk) = Len(s) + 4
    BY <2>1
  <2>5. Len(skv) = Len(s) + 4 + Len(v)
    BY <2>2, <2>4
  <2>6. (Len(s) + 4 + Len(v)) + 1 = Len(s) + 5 + Len(v)
    BY <1>0
  <2> QED BY <2>3, <2>4, <2>5, <2>6
<1>8. /\ sk[Len(s) + 1] = "quote" /\ sk[Len(s) + 2] = "corr" /\ sk[Len(s) + 3] = "quote"
      /\ sk[Len(s) + 4] = Colon
  BY <1>1, <1>3
<1>9. \A i \in 1 .. Len(s) + 4 : t[i] = sk[i]
  BY <1>0, <1>4, <1>5, <1>7 DEF Continues
<1>10. \A i \in 1 .. Len(v) : t[Len(s) + 4 + i] = v[i]
  BY <1>0, <1>4, <1>5, <1>7 DEF Continues
<1>11. t[Len(s) + 5 + Len(v)] = Comma
  <2>1. Len(skv) + 1 = Len(s) + 5 + Len(v) /\ 1 \in 1 .. 1
    BY <1>0, <1>7
  <2>2. t[Len(skv) + 1] = e[1]
    BY <1>2, <1>5, <2>1
  <2> QED BY <1>2, <2>1, <2>2
<1>12. NumberAt(t, Len(s) + 1, v)
  <2>1. /\ Len(s) + 1 + 4 + Len(v) <= Len(t) /\ Len(s) + 1 + 4 + Len(v) = Len(s) + 5 + Len(v)
        /\ Len(s) + 1 + 1 = Len(s) + 2 /\ Len(s) + 1 + 2 = Len(s) + 3 /\ Len(s) + 1 + 3 = Len(s) + 4
    BY <1>0, <1>7
  <2>2. \A i \in 1 .. Len(v) : Len(s) + 1 + 3 + i = Len(s) + 4 + i
    BY <1>0
  <2>3. /\ t[Len(s) + 1] = "quote" /\ t[Len(s) + 2] = "corr" /\ t[Len(s) + 3] = "quote"
        /\ t[Len(s) + 4] = Colon
    BY <1>0, <1>8, <1>9
  <2> QED BY <1>10, <1>11, <2>1, <2>2, <2>3 DEF NumberAt
<1>13. IsSeq(t) /\ Len(t) = Len(s) + 5 + Len(v) /\ Continues(t, s) /\ NumberAt(t, Len(s) + 1, v)
  BY <1>5, <1>6, <1>7, <1>12
<1> QED BY <1>13 DEF t, skv, sk, k, e

\* It stays where it is when the text goes on.
LEMMA NumberStays ==
  ASSUME NEW s, IsSeq(s), NEW t, IsSeq(t), Continues(t, s), NEW a \in Nat \ {0}, NEW v, IsSeq(v),
         NumberAt(s, a, v)
  PROVE  NumberAt(t, a, v)
<1>1. Len(s) \in Nat /\ Len(t) \in Nat /\ Len(v) \in Nat
  BY SeqFacts
<1>2. Len(s) <= Len(t) /\ \A i \in 1 .. Len(s) : t[i] = s[i]
  BY DEF Continues
<1>3. /\ a + 4 + Len(v) <= Len(s)
      /\ s[a] = "quote" /\ s[a + 1] = "corr" /\ s[a + 2] = "quote" /\ s[a + 3] = Colon
      /\ \A i \in 1 .. Len(v) : s[a + 3 + i] = v[i]
      /\ s[a + 4 + Len(v)] = Comma
  BY DEF NumberAt
<1>4. /\ a \in 1 .. Len(s) /\ a + 1 \in 1 .. Len(s) /\ a + 2 \in 1 .. Len(s) /\ a + 3 \in 1 .. Len(s)
      /\ a + 4 + Len(v) \in 1 .. Len(s) /\ \A i \in 1 .. Len(v) : a + 3 + i \in 1 .. Len(s)
  <2>1. a + 4 + Len(v) <= Len(s)
    BY <1>3
  <2> QED BY <1>1, <2>1
<1>5. /\ a + 4 + Len(v) <= Len(t)
      /\ t[a] = "quote" /\ t[a + 1] = "corr" /\ t[a + 2] = "quote" /\ t[a + 3] = Colon
      /\ t[a + 4 + Len(v)] = Comma
  <2>1. a + 4 + Len(v) <= Len(s) /\ Len(s) <= Len(t)
    BY <1>2, <1>3
  <2>2. /\ t[a] = s[a] /\ t[a + 1] = s[a + 1] /\ t[a + 2] = s[a + 2] /\ t[a + 3] = s[a + 3]
        /\ t[a + 4 + Len(v)] = s[a + 4 + Len(v)]
    BY <1>2, <1>4
  <2>3. a + 4 + Len(v) <= Len(t)
    BY <1>1, <2>1
  <2> QED BY <1>3, <2>2, <2>3
<1>6. \A i \in 1 .. Len(v) : t[a + 3 + i] = v[i]
  BY <1>2, <1>3, <1>4
<1> QED BY <1>5, <1>6 DEF NumberAt

\* Where the fields lie in the text of a message.
LEMMA TextLayout ==
  ASSUME NEW m, FieldTexts(m)
  PROVE  LET W == WireText(m) IN
         /\ IsSeq(W) /\ Len(W) = Field(m).body + 6 + Len(m.body)
         /\ W[1] = Opening
         /\ FieldAt(W, Field(m).type, "type", m.type, Comma) /\ FieldAt(W, Field(m).from, "from", m.from, Comma)
         /\ FieldAt(W, Field(m).to, "to", m.to, Comma) /\ FieldAt(W, Field(m).topic, "topic", m.topic, Comma)
         /\ NumberAt(W, Field(m).corr, m.corr) /\ FieldAt(W, Field(m).body, "body", m.body, Closing)
<1> DEFINE t0 == <<Opening>>
           t1 == t0 \o Quoted("type", m.type) \o <<Comma>>
           t2 == t1 \o Quoted("from", m.from) \o <<Comma>>
           t3 == t2 \o Quoted("to", m.to) \o <<Comma>>
           t4 == t3 \o Quoted("topic", m.topic) \o <<Comma>>
           t5 == t4 \o KeyOf("corr") \o m.corr \o <<Comma>>
           t6 == t5 \o Quoted("body", m.body) \o <<Closing>>
<1>0. /\ Len(m.type) \in Nat /\ Len(m.from) \in Nat /\ Len(m.to) \in Nat /\ Len(m.topic) \in Nat
      /\ Len(m.corr) \in Nat /\ Len(m.body) \in Nat
  BY SeqFacts DEF FieldTexts
<1>1. WireText(m) = t6
  BY Zenon DEF WireText, Opening, Comma, Closing
<1>2. IsSeq(t0) /\ Len(t0) = 1 /\ t0[1] = Opening
  BY ShortSeqs
<1> HIDE DEF t0
<1>3. /\ IsSeq(t1) /\ Len(t1) = Len(t0) + Len(m.type) + 7 /\ Continues(t1, t0)
      /\ FieldAt(t1, Len(t0) + 1, "type", m.type, Comma)
  BY <1>2, FieldAdded DEF FieldTexts
<1> HIDE DEF t1
<1>4. /\ IsSeq(t2) /\ Len(t2) = Len(t1) + Len(m.from) + 7 /\ Continues(t2, t1)
      /\ FieldAt(t2, Len(t1) + 1, "from", m.from, Comma)
  BY <1>3, FieldAdded DEF FieldTexts
<1> HIDE DEF t2
<1>5. /\ IsSeq(t3) /\ Len(t3) = Len(t2) + Len(m.to) + 7 /\ Continues(t3, t2)
      /\ FieldAt(t3, Len(t2) + 1, "to", m.to, Comma)
  BY <1>4, FieldAdded DEF FieldTexts
<1> HIDE DEF t3
<1>6. /\ IsSeq(t4) /\ Len(t4) = Len(t3) + Len(m.topic) + 7 /\ Continues(t4, t3)
      /\ FieldAt(t4, Len(t3) + 1, "topic", m.topic, Comma)
  BY <1>5, FieldAdded DEF FieldTexts
<1> HIDE DEF t4
<1>7. /\ IsSeq(t5) /\ Len(t5) = Len(t4) + 5 + Len(m.corr) /\ Continues(t5, t4)
      /\ NumberAt(t5, Len(t4) + 1, m.corr)
  BY <1>6, NumberAdded DEF FieldTexts
<1> HIDE DEF t5
<1>8. /\ IsSeq(t6) /\ Len(t6) = Len(t5) + Len(m.body) + 7 /\ Continues(t6, t5)
      /\ FieldAt(t6, Len(t5) + 1, "body", m.body, Closing)
  BY <1>7, FieldAdded DEF FieldTexts
<1> HIDE DEF t6
<1>9. /\ Field(m).type = Len(t0) + 1 /\ Field(m).from = Len(t1) + 1 /\ Field(m).to = Len(t2) + 1
      /\ Field(m).topic = Len(t3) + 1 /\ Field(m).corr = Len(t4) + 1 /\ Field(m).body = Len(t5) + 1
      /\ Len(t0) \in Nat /\ Len(t1) \in Nat /\ Len(t2) \in Nat /\ Len(t3) \in Nat /\ Len(t4) \in Nat
      /\ Len(t5) \in Nat
  <2>1. /\ Len(t0) = 1 /\ Len(t1) = Len(t0) + Len(m.type) + 7 /\ Len(t2) = Len(t1) + Len(m.from) + 7
        /\ Len(t3) = Len(t2) + Len(m.to) + 7 /\ Len(t4) = Len(t3) + Len(m.topic) + 7
        /\ Len(t5) = Len(t4) + 5 + Len(m.corr)
    BY <1>2, <1>3, <1>4, <1>5, <1>6, <1>7
  <2> DEFINE A == Len(t0)  B == Len(t1)  C == Len(t2)  D == Len(t3)  E == Len(t4)  F == Len(t5)
             p == Len(m.type)  q == Len(m.from)  r == Len(m.to)  x == Len(m.topic)  y == Len(m.corr)
  <2>2. /\ p \in Nat /\ q \in Nat /\ r \in Nat /\ x \in Nat /\ y \in Nat
        /\ A = 1 /\ B = A + p + 7 /\ C = B + q + 7 /\ D = C + r + 7 /\ E = D + x + 7
        /\ F = E + 5 + y
    BY <1>0, <2>1
  <2>3. /\ Field(m).type = 2 /\ Field(m).from = 2 + 7 + p /\ Field(m).to = 2 + 7 + p + 7 + q
        /\ Field(m).topic = 2 + 7 + p + 7 + q + 7 + r
        /\ Field(m).corr = 2 + 7 + p + 7 + q + 7 + r + 7 + x
        /\ Field(m).body = 2 + 7 + p + 7 + q + 7 + r + 7 + x + 5 + y
    BY DEF Field
  <2> HIDE DEF A, B, C, D, E, F, p, q, r, x, y
  <2>4. A = 1 /\ B = 8 + p /\ A \in Nat /\ B \in Nat
    BY <2>2
  <2>5. C = 15 + p + q /\ D = 22 + p + q + r /\ C \in Nat /\ D \in Nat
    BY <2>2, <2>4
  <2>6. E = 29 + p + q + r + x /\ F = 34 + p + q + r + x + y /\ E \in Nat /\ F \in Nat
    BY <2>2, <2>5
  <2>7. /\ Field(m).type = A + 1 /\ Field(m).from = B + 1 /\ Field(m).to = C + 1
        /\ Field(m).topic = D + 1 /\ Field(m).corr = E + 1 /\ Field(m).body = F + 1
    BY <2>2, <2>3, <2>4, <2>5, <2>6
  <2> QED BY <2>4, <2>5, <2>6, <2>7 DEF A, B, C, D, E, F
<1>10. Continues(t6, t4)
  BY <1>6, <1>7, <1>8, ContinuesOn
<1>11. Continues(t6, t3)
  BY <1>5, <1>6, <1>8, <1>10, ContinuesOn
<1>12. Continues(t6, t2)
  BY <1>4, <1>5, <1>8, <1>11, ContinuesOn
<1>13. Continues(t6, t1)
  BY <1>3, <1>4, <1>8, <1>12, ContinuesOn
<1>14. Continues(t6, t0)
  BY <1>2, <1>3, <1>8, <1>13, ContinuesOn
<1>15. FieldAt(t6, Len(t0) + 1, "type", m.type, Comma)
  <2>1. /\ IsSeq(t1) /\ IsSeq(t6) /\ Continues(t6, t1) /\ IsSeq(m.type) /\ Len(t0) + 1 \in Nat \ {0}
        /\ FieldAt(t1, Len(t0) + 1, "type", m.type, Comma)
    BY <1>3, <1>8, <1>9, <1>13 DEF FieldTexts
  <2> QED BY <2>1, FieldStays
<1>16. FieldAt(t6, Len(t1) + 1, "from", m.from, Comma)
  <2>1. /\ IsSeq(t2) /\ IsSeq(t6) /\ Continues(t6, t2) /\ IsSeq(m.from) /\ Len(t1) + 1 \in Nat \ {0}
        /\ FieldAt(t2, Len(t1) + 1, "from", m.from, Comma)
    BY <1>4, <1>8, <1>9, <1>12 DEF FieldTexts
  <2> QED BY <2>1, FieldStays
<1>17. FieldAt(t6, Len(t2) + 1, "to", m.to, Comma)
  <2>1. /\ IsSeq(t3) /\ IsSeq(t6) /\ Continues(t6, t3) /\ IsSeq(m.to) /\ Len(t2) + 1 \in Nat \ {0}
        /\ FieldAt(t3, Len(t2) + 1, "to", m.to, Comma)
    BY <1>5, <1>8, <1>9, <1>11 DEF FieldTexts
  <2> QED BY <2>1, FieldStays
<1>18. FieldAt(t6, Len(t3) + 1, "topic", m.topic, Comma)
  <2>1. /\ IsSeq(t4) /\ IsSeq(t6) /\ Continues(t6, t4) /\ IsSeq(m.topic) /\ Len(t3) + 1 \in Nat \ {0}
        /\ FieldAt(t4, Len(t3) + 1, "topic", m.topic, Comma)
    BY <1>6, <1>8, <1>9, <1>10 DEF FieldTexts
  <2> QED BY <2>1, FieldStays
<1>19. NumberAt(t6, Len(t4) + 1, m.corr)
  <2>1. /\ IsSeq(t5) /\ IsSeq(t6) /\ Continues(t6, t5) /\ IsSeq(m.corr) /\ Len(t4) + 1 \in Nat \ {0}
        /\ NumberAt(t5, Len(t4) + 1, m.corr)
    BY <1>7, <1>8, <1>9 DEF FieldTexts
  <2> QED BY <2>1, NumberStays
<1>20. t6[1] = Opening
  <2>1. 1 \in 1 .. Len(t0)
    BY <1>2
  <2> QED BY <1>2, <1>14, <2>1 DEF Continues
<1>21. Len(t6) = Field(m).body + 6 + Len(m.body)
  <2>1. Len(t6) = Len(t5) + Len(m.body) + 7 /\ Field(m).body = Len(t5) + 1 /\ Len(t5) \in Nat
    BY <1>8, <1>9
  <2>2. \A a, b \in Nat : a + b + 7 = (a + 1) + 6 + b
    OBVIOUS
  <2> QED BY <1>0, <2>1, <2>2
<1> QED BY <1>1, <1>8, <1>9, <1>15, <1>16, <1>17, <1>18, <1>19, <1>20, <1>21

KeyNames == Heads \cup {"corr", "body"}
KeyAt(t, k, key) == t[k] = "quote" /\ t[k + 1] = key /\ t[k + 2] = "quote" /\ t[k + 3] = Colon

\* A key is no character between fields.
LEMMA NamesDiffer ==
  ASSUME NEW key \in KeyNames
  PROVE  key # "quote" /\ key # Colon /\ key # Comma
BY MarksDiffer DEF KeyNames

\* In a field without quotes inside, the only key is its own.
LEMMA FieldHasOneKey ==
  ASSUME NEW t, NEW a \in Nat \ {0}, NEW f \in KeyNames, NEW v, IsSeq(v), FieldAt(t, a, f, v, Comma),
         \A i \in 1 .. Len(v) : v[i] # "quote",
         NEW key \in KeyNames, NEW k \in a .. a + 6 + Len(v), KeyAt(t, k, key)
  PROVE  k = a /\ key = f
<1>0. Len(v) \in Nat
  BY SeqFacts
<1>1. /\ t[a] = "quote" /\ t[a + 1] = f /\ t[a + 2] = "quote" /\ t[a + 3] = Colon /\ t[a + 4] = "quote"
      /\ t[a + 5 + Len(v)] = "quote" /\ t[a + 6 + Len(v)] = Comma
  BY DEF FieldAt, QuotedAt
<1>2. \A i \in 1 .. Len(v) : t[a + 4 + i] = v[i]
  BY DEF FieldAt, QuotedAt
<1>3. t[k] = "quote" /\ t[k + 1] = key /\ t[k + 2] = "quote" /\ t[k + 3] = Colon
  BY DEF KeyAt
<1>4. \A i \in 1 .. Len(v) : t[a + 4 + i] # "quote"
  BY <1>2
<1>5. f # "quote" /\ key # "quote" /\ key # Colon /\ key # Comma /\ Colon # "quote" /\ Comma # "quote" /\ Comma # Colon
  BY NamesDiffer, MarksDiffer
<1>6. k \in Nat
  OBVIOUS
<1>7. CASE k = a
  BY <1>1, <1>3, <1>7
<1>8. CASE k = a + 1
  BY <1>1, <1>3, <1>5, <1>8
<1>9. CASE k = a + 2
  <2>1. k + 1 = a + 3
    BY <1>9
  <2> QED BY <1>1, <1>3, <1>5, <2>1
<1>10. CASE k = a + 3
  BY <1>1, <1>3, <1>5, <1>10
<1>11. CASE k = a + 4
  <2>1. k + 1 = a + 5 /\ k + 2 = a + 6 /\ k + 3 = a + 7
    BY <1>11
  <2>2. CASE Len(v) = 0
    <3>1. a + 5 + Len(v) = a + 5
      BY <2>2
    <3> QED BY <1>1, <1>3, <1>5, <2>1, <3>1
  <2>3. CASE Len(v) = 1
    <3>1. a + 6 + Len(v) = a + 7
      BY <2>3
    <3> QED BY <1>1, <1>3, <1>5, <2>1, <3>1
  <2>4. CASE Len(v) >= 2
    <3>1. 2 \in 1 .. Len(v) /\ a + 4 + 2 = a + 6
      BY <1>0, <2>4
    <3>2. t[a + 4 + 2] # "quote"
      BY <1>4, <3>1
    <3> QED BY <1>3, <2>1, <3>1, <3>2
  <2>5. Len(v) = 0 \/ Len(v) = 1 \/ Len(v) >= 2
    <3>1. \A n \in Nat : n = 0 \/ n = 1 \/ n >= 2
      OBVIOUS
    <3> QED BY <1>0, <3>1, Zenon
  <2> QED BY <2>2, <2>3, <2>4, <2>5
<1>12. CASE k \in a + 5 .. a + 4 + Len(v)
  <2>1. k - (a + 4) \in 1 .. Len(v) /\ a + 4 + (k - (a + 4)) = k
    BY <1>0, <1>12
  <2> QED BY <1>3, <1>4, <2>1
<1>13. CASE k = a + 5 + Len(v)
  <2>1. k + 1 = a + 6 + Len(v)
    BY <1>0, <1>13
  <2> QED BY <1>1, <1>3, <1>5, <2>1
<1>14. CASE k = a + 6 + Len(v)
  BY <1>1, <1>3, <1>5, <1>14
<1>15. \/ k = a \/ k = a + 1 \/ k = a + 2 \/ k = a + 3 \/ k = a + 4 \/ k \in a + 5 .. a + 4 + Len(v)
       \/ k = a + 5 + Len(v) \/ k = a + 6 + Len(v)
  BY <1>0
<1> QED BY <1>7, <1>8, <1>9, <1>10, <1>11, <1>12, <1>13, <1>14, <1>15

\* Nor is there another key in the field of the number.
LEMMA NumberHasOneKey ==
  ASSUME NEW t, NEW a \in Nat \ {0}, NEW v, IsSeq(v), NumberAt(t, a, v),
         \A i \in 1 .. Len(v) : v[i] \in Numerals,
         NEW key \in KeyNames, NEW k \in a .. a + 4 + Len(v), KeyAt(t, k, key)
  PROVE  k = a /\ key = "corr"
<1>0. Len(v) \in Nat
  BY SeqFacts
<1>1. /\ t[a] = "quote" /\ t[a + 1] = "corr" /\ t[a + 2] = "quote" /\ t[a + 3] = Colon
      /\ t[a + 4 + Len(v)] = Comma
  BY DEF NumberAt
<1>2. \A i \in 1 .. Len(v) : t[a + 3 + i] = v[i]
  BY DEF NumberAt
<1>3. t[k] = "quote" /\ t[k + 1] = key /\ t[k + 2] = "quote" /\ t[k + 3] = Colon
  BY DEF KeyAt
<1>4. \A i \in 1 .. Len(v) : t[a + 3 + i] # "quote"
  <2>1. "quote" \notin Numerals
    BY MarksDiffer
  <2> QED BY <1>2, <2>1
<1>5. "corr" # "quote" /\ key # "quote" /\ key # Colon /\ Colon # "quote" /\ Comma # "quote"
  BY NamesDiffer, MarksDiffer
<1>7. CASE k = a
  BY <1>1, <1>3, <1>7
<1>8. CASE k = a + 1
  BY <1>1, <1>3, <1>5, <1>8
<1>9. CASE k = a + 2
  <2>1. k + 1 = a + 3
    BY <1>9
  <2> QED BY <1>1, <1>3, <1>5, <2>1
<1>10. CASE k = a + 3
  BY <1>1, <1>3, <1>5, <1>10
<1>12. CASE k \in a + 4 .. a + 3 + Len(v)
  <2>1. k - (a + 3) \in 1 .. Len(v) /\ a + 3 + (k - (a + 3)) = k
    BY <1>0, <1>12
  <2> QED BY <1>3, <1>4, <2>1
<1>13. CASE k = a + 4 + Len(v)
  BY <1>1, <1>3, <1>5, <1>13
<1>15. \/ k = a \/ k = a + 1 \/ k = a + 2 \/ k = a + 3 \/ k \in a + 4 .. a + 3 + Len(v)
       \/ k = a + 4 + Len(v)
  BY <1>0
<1> QED BY <1>7, <1>8, <1>9, <1>10, <1>12, <1>13, <1>15

NoQuotes(m) == \A f \in Heads : \A i \in 1 .. Len(m[f]) : m[f][i] # "quote"

\* The fields follow one another.
LEMMA FieldPlaces ==
  ASSUME NEW m, FieldTexts(m)
  PROVE  /\ Len(m.type) \in Nat /\ Len(m.from) \in Nat /\ Len(m.to) \in Nat /\ Len(m.topic) \in Nat
         /\ Len(m.corr) \in Nat /\ Len(m.body) \in Nat
         /\ Field(m).type = 2 /\ Field(m).from = Field(m).type + 7 + Len(m.type)
         /\ Field(m).to = Field(m).from + 7 + Len(m.from)
         /\ Field(m).topic = Field(m).to + 7 + Len(m.to)
         /\ Field(m).corr = Field(m).topic + 7 + Len(m.topic)
         /\ Field(m).body = Field(m).corr + 5 + Len(m.corr)
         /\ Field(m).type \in Nat \ {0} /\ Field(m).from \in Nat \ {0} /\ Field(m).to \in Nat \ {0}
         /\ Field(m).topic \in Nat \ {0} /\ Field(m).corr \in Nat \ {0} /\ Field(m).body \in Nat \ {0}
<1>0. /\ Len(m.type) \in Nat /\ Len(m.from) \in Nat /\ Len(m.to) \in Nat /\ Len(m.topic) \in Nat
      /\ Len(m.corr) \in Nat /\ Len(m.body) \in Nat
  BY SeqFacts DEF FieldTexts
<1>1. /\ Field(m).type = 2 /\ Field(m).from = Field(m).type + 7 + Len(m.type)
      /\ Field(m).to = Field(m).from + 7 + Len(m.from)
      /\ Field(m).topic = Field(m).to + 7 + Len(m.to)
      /\ Field(m).corr = Field(m).topic + 7 + Len(m.topic)
      /\ Field(m).body = Field(m).corr + 5 + Len(m.corr)
  BY DEF Field
<1>2. /\ Field(m).type \in Nat \ {0} /\ Field(m).from \in Nat \ {0} /\ Field(m).to \in Nat \ {0}
      /\ Field(m).topic \in Nat \ {0} /\ Field(m).corr \in Nat \ {0} /\ Field(m).body \in Nat \ {0}
  <2> DEFINE p == Len(m.type)  q == Len(m.from)  r == Len(m.to)  x == Len(m.topic)  y == Len(m.corr)
             a == Field(m).type  b == Field(m).from  c == Field(m).to  d == Field(m).topic
             e == Field(m).corr  g == Field(m).body
  <2>1. /\ p \in Nat /\ q \in Nat /\ r \in Nat /\ x \in Nat /\ y \in Nat
        /\ a = 2 /\ b = a + 7 + p /\ c = b + 7 + q /\ d = c + 7 + r /\ e = d + 7 + x /\ g = e + 5 + y
    BY <1>0, <1>1
  <2> HIDE DEF p, q, r, x, y, a, b, c, d, e, g
  <2>2. /\ a \in Nat \ {0} /\ b \in Nat \ {0} /\ c \in Nat \ {0}
        /\ d \in Nat \ {0} /\ e \in Nat \ {0} /\ g \in Nat \ {0}
    <3>1. a \in Nat \ {0} /\ b \in Nat \ {0} /\ c \in Nat \ {0}
      BY <2>1
    <3>2. d \in Nat \ {0} /\ e \in Nat \ {0} /\ g \in Nat \ {0}
      BY <2>1, <3>1
    <3> QED BY <3>1, <3>2
  <2> QED BY <2>2 DEF a, b, c, d, e, g
<1> QED BY <1>0, <1>1, <1>2

\* Before the body every key is where its field begins.
LEMMA KeysInPlace ==
  ASSUME NEW m, FieldTexts(m), NoQuotes(m), \A i \in 1 .. Len(m.corr) : m.corr[i] \in Numerals,
         NEW key \in KeyNames, NEW k \in 1 .. Field(m).body - 1, KeyAt(WireText(m), k, key)
  PROVE  \/ key = "type" /\ k = Field(m).type
         \/ key = "from" /\ k = Field(m).from
         \/ key = "to" /\ k = Field(m).to
         \/ key = "topic" /\ k = Field(m).topic
         \/ key = "corr" /\ k = Field(m).corr
<1> DEFINE W == WireText(m)
           a == Field(m).type  b == Field(m).from  c == Field(m).to  d == Field(m).topic
           e == Field(m).corr  g == Field(m).body
<1>0. /\ IsSeq(m.type) /\ IsSeq(m.from) /\ IsSeq(m.to) /\ IsSeq(m.topic) /\ IsSeq(m.corr)
  BY DEF FieldTexts
<1>1. /\ Len(m.type) \in Nat /\ Len(m.from) \in Nat /\ Len(m.to) \in Nat /\ Len(m.topic) \in Nat
      /\ Len(m.corr) \in Nat
      /\ a = 2 /\ b = a + 7 + Len(m.type) /\ c = b + 7 + Len(m.from) /\ d = c + 7 + Len(m.to)
      /\ e = d + 7 + Len(m.topic) /\ g = e + 5 + Len(m.corr)
  BY FieldPlaces
<1>11. a \in Nat \ {0} /\ b \in Nat \ {0} /\ c \in Nat \ {0} /\ d \in Nat \ {0} /\ e \in Nat \ {0} /\ g \in Nat \ {0}
  BY FieldPlaces
<1>2. /\ W[1] = Opening
      /\ FieldAt(W, a, "type", m.type, Comma) /\ FieldAt(W, b, "from", m.from, Comma)
      /\ FieldAt(W, c, "to", m.to, Comma) /\ FieldAt(W, d, "topic", m.topic, Comma)
      /\ NumberAt(W, e, m.corr)
  BY TextLayout
<1>3. /\ \A i \in 1 .. Len(m.type) : m.type[i] # "quote"
      /\ \A i \in 1 .. Len(m.from) : m.from[i] # "quote"
      /\ \A i \in 1 .. Len(m.to) : m.to[i] # "quote"
      /\ \A i \in 1 .. Len(m.topic) : m.topic[i] # "quote"
  BY DEF NoQuotes, Heads
<1>4. "type" \in KeyNames /\ "from" \in KeyNames /\ "to" \in KeyNames /\ "topic" \in KeyNames
  BY DEF KeyNames, Heads
<1>5. KeyAt(W, k, key) /\ k \in 1 .. g - 1
  OBVIOUS
<1> HIDE DEF W, a, b, c, d, e, g
<1>6. CASE k = 1
  BY <1>2, <1>5, <1>6, MarksDiffer DEF KeyAt
<1>7. CASE k \in a .. a + 6 + Len(m.type)
  BY <1>0, <1>2, <1>3, <1>4, <1>5, <1>7, <1>11, FieldHasOneKey DEF a
<1>8. CASE k \in b .. b + 6 + Len(m.from)
  BY <1>0, <1>2, <1>3, <1>4, <1>5, <1>8, <1>11, FieldHasOneKey DEF b
<1>9. CASE k \in c .. c + 6 + Len(m.to)
  BY <1>0, <1>2, <1>3, <1>4, <1>5, <1>9, <1>11, FieldHasOneKey DEF c
<1>10. CASE k \in d .. d + 6 + Len(m.topic)
  BY <1>0, <1>2, <1>3, <1>4, <1>5, <1>10, <1>11, FieldHasOneKey DEF d
<1>12. CASE k \in e .. e + 4 + Len(m.corr)
  BY <1>0, <1>2, <1>5, <1>11, <1>12, NumberHasOneKey DEF e
<1>13. \/ k = 1 \/ k \in a .. a + 6 + Len(m.type) \/ k \in b .. b + 6 + Len(m.from)
       \/ k \in c .. c + 6 + Len(m.to) \/ k \in d .. d + 6 + Len(m.topic) \/ k \in e .. e + 4 + Len(m.corr)
  <2> DEFINE p == Len(m.type)  q == Len(m.from)  r == Len(m.to)  x == Len(m.topic)  y == Len(m.corr)
  <2>1. /\ p \in Nat /\ q \in Nat /\ r \in Nat /\ x \in Nat /\ y \in Nat
        /\ a = 2 /\ b = a + 7 + p /\ c = b + 7 + q /\ d = c + 7 + r /\ e = d + 7 + x /\ g = e + 5 + y
    BY <1>1
  <2> HIDE DEF p, q, r, x, y
  <2>2. \/ k = 1 \/ k \in a .. a + 6 + p \/ k \in b .. b + 6 + q
        \/ k \in c .. c + 6 + r \/ k \in d .. d + 6 + x \/ k \in e .. e + 4 + y
    <3>1. a \in Nat /\ b \in Nat /\ c \in Nat /\ d \in Nat /\ e \in Nat /\ g \in Nat
      BY <1>11
    <3>2. k \in Nat /\ 1 <= k /\ k < g
      BY <1>5, <3>1
    <3>3. k < b => k = 1 \/ k \in a .. a + 6 + p
      BY <2>1, <3>1, <3>2
    <3>4. k >= b /\ k < c => k \in b .. b + 6 + q
      BY <2>1, <3>1, <3>2
    <3>5. k >= c /\ k < d => k \in c .. c + 6 + r
      BY <2>1, <3>1, <3>2
    <3>6. k >= d /\ k < e => k \in d .. d + 6 + x
      BY <2>1, <3>1, <3>2
    <3>7. k >= e => k \in e .. e + 4 + y
      BY <2>1, <3>1, <3>2
    <3> QED BY <3>1, <3>2, <3>3, <3>4, <3>5, <3>6, <3>7
  <2> QED BY <2>2 DEF p, q, r, x, y
<1> QED BY <1>6, <1>7, <1>8, <1>9, <1>10, <1>12, <1>13

\* A message as the wire format takes it, none of its head fields with a quote.
Plain(m) == /\ FieldTexts(m) /\ NoQuotes(m) /\ \A i \in 1 .. Len(m.corr) : m.corr[i] \in Numerals
            /\ m.corr # <<>>

\* Each quoted field of a message is in its text, at its place.
LEMMA QuotedIn ==
  ASSUME NEW m, FieldTexts(m), NEW f \in Heads \cup {"body"}
  PROVE  Field(m)[f] \in Nat \ {0} /\ IsSeq(m[f]) /\ QuotedAt(WireText(m), Field(m)[f], f, m[f])
<1>1. /\ Field(m).type \in Nat \ {0} /\ Field(m).from \in Nat \ {0} /\ Field(m).to \in Nat \ {0}
      /\ Field(m).topic \in Nat \ {0} /\ Field(m).body \in Nat \ {0}
  BY FieldPlaces
<1>2. /\ QuotedAt(WireText(m), Field(m).type, "type", m.type)
      /\ QuotedAt(WireText(m), Field(m).from, "from", m.from)
      /\ QuotedAt(WireText(m), Field(m).to, "to", m.to)
      /\ QuotedAt(WireText(m), Field(m).topic, "topic", m.topic)
      /\ QuotedAt(WireText(m), Field(m).body, "body", m.body)
  BY TextLayout DEF FieldAt
<1>3. f = "type" \/ f = "from" \/ f = "to" \/ f = "topic" \/ f = "body"
  BY DEF Heads
<1>4. CASE f = "type"
  BY <1>1, <1>2, <1>4 DEF FieldTexts
<1>5. CASE f = "from"
  BY <1>1, <1>2, <1>5 DEF FieldTexts
<1>6. CASE f = "to"
  BY <1>1, <1>2, <1>6 DEF FieldTexts
<1>7. CASE f = "topic"
  BY <1>1, <1>2, <1>7 DEF FieldTexts
<1>8. CASE f = "body"
  BY <1>1, <1>2, <1>8 DEF FieldTexts
<1> QED BY <1>3, <1>4, <1>5, <1>6, <1>7, <1>8

\* The body is the last field.
LEMMA FieldsBeforeBody ==
  ASSUME NEW m, FieldTexts(m), NEW f \in KeyNames
  PROVE  Field(m)[f] \in Nat \ {0} /\ Field(m)[f] <= Field(m).body /\ Field(m).body \in Nat \ {0}
<1>1. /\ Field(m).type \in Nat \ {0} /\ Field(m).from \in Nat \ {0} /\ Field(m).to \in Nat \ {0}
      /\ Field(m).topic \in Nat \ {0} /\ Field(m).corr \in Nat \ {0} /\ Field(m).body \in Nat \ {0}
  BY FieldPlaces
<1>2. /\ Field(m).type <= Field(m).body /\ Field(m).from <= Field(m).body /\ Field(m).to <= Field(m).body
      /\ Field(m).topic <= Field(m).body /\ Field(m).corr <= Field(m).body
  <2> DEFINE p == Len(m.type)  q == Len(m.from)  r == Len(m.to)  x == Len(m.topic)  y == Len(m.corr)
             a == Field(m).type  b == Field(m).from  c == Field(m).to  d == Field(m).topic
             e == Field(m).corr  g == Field(m).body
  <2>1. /\ p \in Nat /\ q \in Nat /\ r \in Nat /\ x \in Nat /\ y \in Nat
        /\ a = 2 /\ b = a + 7 + p /\ c = b + 7 + q /\ d = c + 7 + r /\ e = d + 7 + x /\ g = e + 5 + y
        /\ a \in Nat /\ b \in Nat /\ c \in Nat /\ d \in Nat /\ e \in Nat /\ g \in Nat
    BY FieldPlaces
  <2> HIDE DEF p, q, r, x, y, a, b, c, d, e, g
  <2>2. a <= b /\ b <= c /\ c <= d /\ d <= e /\ e <= g
    BY <2>1
  <2>3. a <= g /\ b <= g /\ c <= g /\ d <= g
    BY <2>1, <2>2
  <2> QED BY <2>2, <2>3 DEF a, b, c, d, e, g
<1>3. f = "type" \/ f = "from" \/ f = "to" \/ f = "topic" \/ f = "corr" \/ f = "body"
  BY DEF KeyNames, Heads
<1>4. Field(m).body <= Field(m).body
  BY <1>1
<1> QED BY <1>1, <1>2, <1>3, <1>4

\* The first place of each key is its field's.
LEMMA KeyIsFirst ==
  ASSUME NEW m, Plain(m), NEW f \in KeyNames
  PROVE  \A k \in 1 .. Field(m)[f] - 1 : ~KeyAt(WireText(m), k, f)
<1>1. Field(m)[f] \in Nat \ {0} /\ Field(m)[f] <= Field(m).body /\ Field(m).body \in Nat \ {0}
  BY FieldsBeforeBody DEF Plain
<1> SUFFICES ASSUME NEW k \in 1 .. Field(m)[f] - 1, KeyAt(WireText(m), k, f) PROVE FALSE
  OBVIOUS
<1>2. k \in 1 .. Field(m).body - 1
  BY <1>1
<1>3. \/ f = "type" /\ k = Field(m).type
      \/ f = "from" /\ k = Field(m).from
      \/ f = "to" /\ k = Field(m).to
      \/ f = "topic" /\ k = Field(m).topic
      \/ f = "corr" /\ k = Field(m).corr
  BY <1>2, KeysInPlace DEF Plain
<1>4. k = Field(m)[f]
  BY <1>3
<1> QED BY <1>1, <1>4

KeyNeedle(N, f) ==
  /\ IsSeq(N) /\ Len(N) >= 4
  /\ N[1] = "quote" /\ N[2] = f /\ N[3] = "quote" /\ N[4] = Colon

\* What is found in a text that W goes on from.
LEMMA KeyFound ==
  ASSUME NEW T, IsSeq(T), NEW W, IsSeq(W), Continues(W, T), NEW f,
         NEW N, KeyNeedle(N, f),
         NEW p \in Nat \ {0}, \A k \in 1 .. p - 1 : ~KeyAt(W, k, f),
         \A i \in 1 .. Len(N) : W[p + i - 1] = N[i]
  PROVE  Find(T, N) = IF p + Len(N) - 1 <= Len(T) THEN p ELSE 0
<1>0. IsSeq(N) /\ Len(N) >= 4 /\ N[1] = "quote" /\ N[2] = f /\ N[3] = "quote" /\ N[4] = Colon
  BY DEF KeyNeedle
<1>1. Len(T) \in Nat /\ Len(N) \in Nat /\ Len(N) > 0
  BY <1>0, SeqFacts
<1>2. \A i \in 1 .. Len(T) : W[i] = T[i]
  BY DEF Continues
<1>3. \A k \in 1 .. p - 1 : ~NeedleAt(T, k, N)
  <2> SUFFICES ASSUME NEW k \in 1 .. p - 1, NeedleAt(T, k, N) PROVE FALSE
    OBVIOUS
  <2>1. k + Len(N) - 1 <= Len(T) /\ \A i \in 1 .. Len(N) : T[k + i - 1] = N[i]
    BY DEF NeedleAt
  <2>2. /\ k \in 1 .. Len(T) /\ k + 1 \in 1 .. Len(T) /\ k + 2 \in 1 .. Len(T) /\ k + 3 \in 1 .. Len(T)
        /\ 1 \in 1 .. Len(N) /\ 2 \in 1 .. Len(N) /\ 3 \in 1 .. Len(N) /\ 4 \in 1 .. Len(N)
    BY <1>0, <1>1, <2>1
  <2>3. k + 1 - 1 = k /\ k + 2 - 1 = k + 1 /\ k + 3 - 1 = k + 2 /\ k + 4 - 1 = k + 3
    OBVIOUS
  <2>4. T[k] = "quote" /\ T[k + 1] = f /\ T[k + 2] = "quote" /\ T[k + 3] = Colon
    BY <1>0, <2>1, <2>2, <2>3
  <2>5. KeyAt(W, k, f)
    BY <1>2, <2>2, <2>4 DEF KeyAt
  <2> QED BY <2>5
<1>4. p + Len(N) - 1 <= Len(T) => NeedleAt(T, p, N)
  <2> SUFFICES ASSUME p + Len(N) - 1 <= Len(T), NEW i \in 1 .. Len(N) PROVE T[p + i - 1] = N[i]
    BY DEF NeedleAt
  <2>1. p + i - 1 \in 1 .. Len(T)
    BY <1>1
  <2> QED BY <1>2, <2>1
<1>5. /\ NeedleAt(T, p, N) => Find(T, N) = p
      /\ p + Len(N) - 1 > Len(T) => Find(T, N) = 0
  BY <1>0, <1>1, <1>3, FindIs
<1>6. p + Len(N) - 1 <= Len(T) \/ p + Len(N) - 1 > Len(T)
  BY <1>1
<1>7. CASE p + Len(N) - 1 <= Len(T)
  BY <1>4, <1>5, <1>7
<1>8. CASE p + Len(N) - 1 > Len(T)
  <2>1. ~(p + Len(N) - 1 <= Len(T))
    BY <1>1, <1>8
  <2> QED BY <1>5, <1>8, <2>1
<1> QED BY <1>6, <1>7, <1>8

\* A quoted field is found where it is, if the text reaches that far.
LEMMA QuotedFound ==
  ASSUME NEW m, Plain(m), NEW T, IsSeq(T), Continues(WireText(m), T), NEW f \in Heads \cup {"body"}
  PROVE  Find(T, KeyOf(f) \o <<"quote">>) = IF Field(m)[f] + 4 <= Len(T) THEN Field(m)[f] ELSE 0
<1> DEFINE W == WireText(m)
           N == KeyOf(f) \o <<"quote">>
           p == Field(m)[f]
<1>1. p \in Nat \ {0} /\ QuotedAt(W, p, f, m[f])
  BY QuotedIn DEF Plain
<1>2. \A k \in 1 .. p - 1 : ~KeyAt(W, k, f)
  BY KeyIsFirst DEF KeyNames
<1>3. /\ IsSeq(N) /\ Len(N) = 5 /\ N[1] = "quote" /\ N[2] = f /\ N[3] = "quote" /\ N[4] = Colon
      /\ N[5] = "quote"
  BY QuotedKeyFacts
<1>4. IsSeq(W)
  BY TextLayout DEF Plain
<1>5. Continues(W, T)
  OBVIOUS
<1> HIDE DEF W, N, p
<1>6. W[p] = "quote" /\ W[p + 1] = f /\ W[p + 2] = "quote" /\ W[p + 3] = Colon /\ W[p + 4] = "quote"
  BY <1>1 DEF QuotedAt
<1>7. \A i \in 1 .. Len(N) : W[p + i - 1] = N[i]
  <2> SUFFICES ASSUME NEW i \in 1 .. 5 PROVE W[p + i - 1] = N[i]
    BY <1>3
  <2>1. i = 1 \/ i = 2 \/ i = 3 \/ i = 4 \/ i = 5
    OBVIOUS
  <2>2. p + 1 - 1 = p /\ p + 2 - 1 = p + 1 /\ p + 3 - 1 = p + 2 /\ p + 4 - 1 = p + 3 /\ p + 5 - 1 = p + 4
    BY <1>1
  <2> QED BY <1>3, <1>6, <2>1, <2>2
<1>8. Find(T, N) = IF p + Len(N) - 1 <= Len(T) THEN p ELSE 0
  <2>1. KeyNeedle(N, f)
    BY <1>3 DEF KeyNeedle
  <2>2. p \in Nat \ {0}
    BY <1>1
  <2> QED BY <1>2, <1>4, <1>5, <1>7, <2>1, <2>2, KeyFound
<1>9. p + Len(N) - 1 = p + 4
  BY <1>1, <1>3
<1> QED BY <1>8, <1>9 DEF N, p

\* So is the number.
LEMMA NumberFound ==
  ASSUME NEW m, Plain(m), NEW T, IsSeq(T), Continues(WireText(m), T)
  PROVE  Find(T, KeyOf("corr")) = IF Field(m).corr + 3 <= Len(T) THEN Field(m).corr ELSE 0
<1> DEFINE W == WireText(m)
           N == KeyOf("corr")
           p == Field(m).corr
<1>1. p \in Nat \ {0} /\ NumberAt(W, p, m.corr)
  BY FieldPlaces, TextLayout DEF Plain
<1>2. \A k \in 1 .. p - 1 : ~KeyAt(W, k, "corr")
  BY KeyIsFirst DEF KeyNames
<1>3. IsSeq(N) /\ Len(N) = 4 /\ N[1] = "quote" /\ N[2] = "corr" /\ N[3] = "quote" /\ N[4] = Colon
  BY KeyFacts
<1>4. IsSeq(W)
  BY TextLayout DEF Plain
<1>5. Continues(W, T)
  OBVIOUS
<1> HIDE DEF W, N, p
<1>6. W[p] = "quote" /\ W[p + 1] = "corr" /\ W[p + 2] = "quote" /\ W[p + 3] = Colon
  BY <1>1 DEF NumberAt
<1>7. \A i \in 1 .. Len(N) : W[p + i - 1] = N[i]
  <2> SUFFICES ASSUME NEW i \in 1 .. 4 PROVE W[p + i - 1] = N[i]
    BY <1>3
  <2>1. i = 1 \/ i = 2 \/ i = 3 \/ i = 4
    OBVIOUS
  <2>2. p + 1 - 1 = p /\ p + 2 - 1 = p + 1 /\ p + 3 - 1 = p + 2 /\ p + 4 - 1 = p + 3
    BY <1>1
  <2> QED BY <1>3, <1>6, <2>1, <2>2
<1>8. Find(T, N) = IF p + Len(N) - 1 <= Len(T) THEN p ELSE 0
  <2>1. KeyNeedle(N, "corr")
    BY <1>3 DEF KeyNeedle
  <2>2. p \in Nat \ {0}
    BY <1>1
  <2> QED BY <1>2, <1>4, <1>5, <1>7, <2>1, <2>2, KeyFound
<1>9. p + Len(N) - 1 = p + 3
  BY <1>1, <1>3
<1> QED BY <1>8, <1>9 DEF N, p

\* What a cut keeps.
LEMMA CutKeeps ==
  ASSUME NEW size \in Nat \ {0}, NEW v, IsSeq(v)
  PROVE  /\ IsSeq(CutTo(size, v)) /\ Len(CutTo(size, v)) = IF Len(v) <= size - 1 THEN Len(v) ELSE size - 1
         /\ Continues(v, CutTo(size, v)) /\ (Len(v) < size => CutTo(size, v) = v)
<1> DEFINE n == Min({Len(v), size - 1})
           c == SubSeq(v, 1, n)
<1>1. Len(v) \in Nat /\ size - 1 \in Nat
  BY SeqFacts
<1>2. n \in {Len(v), size - 1} /\ n <= Len(v) /\ n <= size - 1
  <2>1. {Len(v), size - 1} \in SUBSET Nat /\ {Len(v), size - 1} # {}
    BY <1>1
  <2> QED BY <2>1, MinIsLeast
<1>3. n = IF Len(v) <= size - 1 THEN Len(v) ELSE size - 1
  BY <1>1, <1>2
<1>4. CutTo(size, v) = c
  BY DEF CutTo
<1> HIDE DEF n
<1>5. n \in Nat /\ n <= Len(v)
  BY <1>1, <1>2
<1>6. IsSeq(c) /\ Len(c) = n /\ \A i \in 1 .. n : c[i] = v[i]
  <2>1. /\ IsSeq(c) /\ Len(c) = IF 1 <= n THEN n - 1 + 1 ELSE 0
        /\ \A i \in 1 .. n - 1 + 1 : c[i] = v[1 + i - 1]
    BY <1>5, PartFacts
  <2>2. (IF 1 <= n THEN n - 1 + 1 ELSE 0) = n /\ n - 1 + 1 = n
    BY <1>5
  <2>3. \A i \in 1 .. n : 1 + i - 1 = i
    BY <1>5
  <2> HIDE DEF c
  <2> QED BY <2>1, <2>2, <2>3
<1> HIDE DEF c
<1>7. Len(v) < size => c = v
  <2> SUFFICES ASSUME Len(v) < size PROVE c = v
    OBVIOUS
  <2>1. n = Len(v)
    BY <1>1, <1>3
  <2> QED BY <1>6, <2>1, SameSeq
<1>8. Continues(v, c)
  BY <1>5, <1>6 DEF Continues
<1> QED BY <1>3, <1>4, <1>6, <1>7, <1>8

\* The part of a text where a value lies.
LEMMA ValueThere ==
  ASSUME NEW T, IsSeq(T), NEW v, IsSeq(v), NEW b \in Nat \ {0}, NEW n \in Nat,
         n <= Len(v), b + n - 1 <= Len(T), \A i \in 1 .. n : T[b + i - 1] = v[i]
  PROVE  /\ IsSeq(SubSeq(T, b, b + n - 1)) /\ Len(SubSeq(T, b, b + n - 1)) = n
         /\ Continues(v, SubSeq(T, b, b + n - 1)) /\ (n = Len(v) => SubSeq(T, b, b + n - 1) = v)
<1> DEFINE e == b + n - 1
           c == SubSeq(T, b, e)
<1>1. e \in Nat /\ e <= Len(T) /\ b >= 1 /\ e - b + 1 = n /\ (b <= e <=> n > 0)
  OBVIOUS
<1> HIDE DEF e
<1>2. /\ IsSeq(c) /\ Len(c) = IF b <= e THEN e - b + 1 ELSE 0
      /\ \A i \in 1 .. e - b + 1 : c[i] = T[b + i - 1]
  BY <1>1, PartFacts
<1> HIDE DEF c
<1>3. Len(c) = n /\ \A i \in 1 .. n : c[i] = v[i]
  BY <1>1, <1>2
<1>4. Continues(v, c)
  BY <1>3 DEF Continues
<1>5. n = Len(v) => c = v
  BY <1>2, <1>3, SameSeq
<1> QED BY <1>2, <1>3, <1>4, <1>5 DEF c, e

\* A head field arrives whole or not at all.
LEMMA HeadArrives ==
  ASSUME NEW m, Plain(m), NEW f \in Heads, Len(m[f]) < HeadSize, HeadSize \in Nat \ {0},
         NEW T, IsSeq(T), Continues(WireText(m), T), NEW len \in Nat
  PROVE  /\ extract_str(T, len, f) = m[f] \/ extract_str(T, len, f) = <<>>
         /\ T = WireText(m) /\ len = Len(T) => extract_str(T, len, f) = m[f]
<1> DEFINE W == WireText(m)
           p == Field(m)[f]
           v == m[f]
           at == Find(T, KeyOf(f) \o <<"quote">>)
           closing == NextQuote(T, at + 5)
           part == SubSeq(T, at + 5, closing - 1)
<1>1. p \in Nat \ {0} /\ IsSeq(v) /\ QuotedAt(W, p, f, v)
  BY QuotedIn DEF Plain
<1>2. at = IF p + 4 <= Len(T) THEN p ELSE 0
  BY QuotedFound
<1>3. \A i \in 1 .. Len(v) : v[i] # "quote"
  BY DEF Plain, NoQuotes
<1>4. extract_str(T, len, f) = IF at = 0 \/ at > len \/ closing = 0 \/ closing > len THEN <<>>
                               ELSE CutTo(HeadSize, part)
  BY DEF extract_str
<1>5. Continues(W, T) /\ Len(v) < HeadSize /\ IsSeq(W) /\ (T = WireText(m) <=> T = W)
  BY TextLayout DEF Plain
<1>6. closing = FirstOf({k \in at + 5 .. Len(T) : T[k] = "quote"})
  BY DEF NextQuote
<1> HIDE DEF W, p, v, at, closing
<1>7. Len(T) \in Nat /\ Len(W) \in Nat /\ Len(v) \in Nat
  BY <1>1, <1>5, SeqFacts
<1>8. Len(T) <= Len(W) /\ \A i \in 1 .. Len(T) : W[i] = T[i]
  BY <1>5 DEF Continues
<1>9. /\ p + 5 + Len(v) <= Len(W) /\ W[p + 5 + Len(v)] = "quote"
      /\ \A i \in 1 .. Len(v) : W[p + 4 + i] = v[i]
  BY <1>1 DEF QuotedAt
<1>10. CASE p + 4 <= Len(T)
  <2>1. at = p /\ at # 0
    BY <1>1, <1>2, <1>10
  <2> DEFINE S == {k \in p + 5 .. Len(T) : T[k] = "quote"}
             c == p + 5 + Len(v)
  <2>2. closing = FirstOf(S)
    BY <1>6, <2>1
  <2>3. \A k \in S : c <= k
    <3> SUFFICES ASSUME NEW k \in S, k < c PROVE FALSE
      BY <1>1, <1>7
    <3>1. k \in p + 5 .. Len(T) /\ T[k] = "quote" /\ k \in Nat
      BY <1>1
    <3>2. k - (p + 4) \in 1 .. Len(v) /\ p + 4 + (k - (p + 4)) = k
      BY <1>1, <1>7, <3>1
    <3>3. k \in 1 .. Len(T)
      BY <1>1, <1>7, <3>1
    <3>4. W[k] = T[k]
      BY <1>8, <3>3
    <3>5. W[p + 4 + (k - (p + 4))] = v[k - (p + 4)]
      BY <1>9, <3>2
    <3> QED BY <1>3, <3>1, <3>2, <3>4, <3>5
  <2>4. c \in Nat /\ S \in SUBSET Nat
    BY <1>1, <1>7
  <2>5. CASE c <= Len(T)
    <3>1. c \in S
      <4>1. c \in p + 5 .. Len(T) /\ c \in 1 .. Len(T)
        BY <1>1, <1>7, <2>5
      <4> QED BY <1>8, <1>9, <4>1
    <3>2. closing = c
      <4> HIDE DEF S, c
      <4> QED BY <2>2, <2>3, <2>4, <3>1, FirstPlaceIs
    <3>3. part = v
      <4>1. p + 5 \in Nat \ {0} /\ Len(v) \in Nat /\ (p + 5) + Len(v) - 1 <= Len(T)
        BY <1>1, <1>7, <2>5
      <4>2. \A i \in 1 .. Len(v) : T[(p + 5) + i - 1] = v[i]
        <5> SUFFICES ASSUME NEW i \in 1 .. Len(v) PROVE T[(p + 5) + i - 1] = v[i]
          OBVIOUS
        <5>1. (p + 5) + i - 1 = p + 4 + i /\ p + 4 + i \in 1 .. Len(T)
          BY <1>1, <1>7, <2>5
        <5> QED BY <1>8, <1>9, <5>1
      <4> DEFINE b == p + 5
                 n == Len(v)
      <4>3. /\ b \in Nat \ {0} /\ n \in Nat /\ n <= Len(v) /\ b + n - 1 <= Len(T)
            /\ \A i \in 1 .. n : T[b + i - 1] = v[i]
        BY <1>7, <4>1, <4>2
      <4> HIDE DEF b, n
      <4>5. IsSeq(v) /\ IsSeq(T)
        BY <1>1
      <4>6. n = Len(v) => SubSeq(T, b, b + n - 1) = v
        BY <4>3, <4>5, ValueThere
      <4>4. SubSeq(T, p + 5, (p + 5) + Len(v) - 1) = v
        BY <4>6 DEF b, n
      <4>7. (p + 5) + Len(v) - 1 = closing - 1
        BY <1>1, <1>7, <3>2
      <4> QED BY <2>1, <4>4, <4>7
    <3>4. CutTo(HeadSize, part) = v
      BY <1>1, <1>5, <3>3, CutKeeps
    <3> HIDE DEF part
    <3>5. extract_str(T, len, f) = v \/ extract_str(T, len, f) = <<>>
      BY <1>4, <3>4
    <3>6. len = Len(T) => extract_str(T, len, f) = v
      <4>1. len = Len(T) => ~(at > len) /\ closing # 0 /\ ~(closing > len)
        BY <1>1, <1>7, <1>10, <2>1, <2>5, <3>2
      <4> QED BY <1>4, <2>1, <3>4, <4>1
    <3> QED BY <3>5, <3>6 DEF v
  <2>6. CASE ~(c <= Len(T))
    <3>1. S = {}
      BY <1>1, <1>7, <2>3, <2>6
    <3>2. closing = 0
      BY <2>2, <3>1 DEF FirstOf
    <3>3. T # W
      BY <1>9, <2>6
    <3> QED BY <1>4, <1>5, <3>2, <3>3
  <2> QED BY <2>5, <2>6
<1>11. CASE ~(p + 4 <= Len(T))
  <2>1. at = 0
    BY <1>2, <1>11
  <2>2. T # W
    BY <1>1, <1>7, <1>9, <1>11
  <2> QED BY <1>4, <1>5, <2>1, <2>2
<1> QED BY <1>10, <1>11

\* Of the number a beginning arrives, or a zero.
LEMMA NumberArrives ==
  ASSUME NEW m, Plain(m), NEW T, IsSeq(T), Continues(WireText(m), T), NEW len \in Nat
  PROVE  /\ IsPrefix(extract_u64(T, len, "corr"), m.corr) \/ extract_u64(T, len, "corr") = <<"0">>
         /\ T = WireText(m) /\ len = Len(T) => extract_u64(T, len, "corr") = m.corr
<1> DEFINE W == WireText(m)
           p == Field(m).corr
           v == m.corr
           at == Find(T, KeyOf("corr"))
           S == {k \in at + 4 .. Len(T) + 1 : k > Len(T) \/ T[k] \notin Numerals}
           stop == Min(S)
           part == SubSeq(T, at + 4, stop - 1)
<1>1. p \in Nat \ {0} /\ IsSeq(v) /\ NumberAt(W, p, v)
  BY FieldPlaces, TextLayout DEF Plain, FieldTexts
<1>2. at = IF p + 3 <= Len(T) THEN p ELSE 0
  BY NumberFound
<1>3. v # <<>> /\ \A i \in 1 .. Len(v) : v[i] \in Numerals
  BY DEF Plain
<1>4. extract_u64(T, len, "corr") = IF at = 0 \/ at > len \/ stop = at + 4 THEN <<"0">> ELSE part
  BY DEF extract_u64
<1>5. Continues(W, T) /\ IsSeq(W) /\ (T = WireText(m) <=> T = W)
  BY TextLayout DEF Plain
<1> HIDE DEF W, p, v, at
<1>7. Len(T) \in Nat /\ Len(W) \in Nat /\ Len(v) \in Nat /\ Len(v) > 0
  BY <1>1, <1>3, <1>5, SeqFacts
<1>8. Len(T) <= Len(W) /\ \A i \in 1 .. Len(T) : W[i] = T[i]
  BY <1>5 DEF Continues
<1>9. /\ p + 4 + Len(v) <= Len(W) /\ W[p + 4 + Len(v)] = Comma
      /\ \A i \in 1 .. Len(v) : W[p + 3 + i] = v[i]
  BY <1>1 DEF NumberAt
<1>10. CASE p + 3 <= Len(T)
  <2>1. at = p /\ at # 0
    BY <1>1, <1>2, <1>10
  <2> DEFINE c == p + 4 + Len(v)
             n == IF c <= Len(T) THEN Len(v) ELSE Len(T) + 1 - (p + 4)
  <2>2. /\ n \in Nat /\ n <= Len(v) /\ p + 4 + n <= Len(T) + 1 /\ c \in Nat
        /\ (c <= Len(T) => n = Len(v)) /\ (~(c <= Len(T)) => p + 4 + n = Len(T) + 1)
    <3>0. p \in Nat /\ p + 3 <= Len(T)
      BY <1>1, <1>10
    <3>1. c \in Nat
      BY <1>7, <3>0
    <3>2. CASE c <= Len(T)
      <4>1. n = Len(v)
        BY <3>2
      <4>2. p + 4 + Len(v) <= Len(T) + 1 /\ Len(v) <= Len(v)
        BY <1>7, <3>0, <3>2
      <4> HIDE DEF n
      <4> QED BY <1>7, <3>1, <3>2, <4>1, <4>2
    <3>3. CASE ~(c <= Len(T))
      <4>1. n = Len(T) + 1 - (p + 4)
        BY <3>3
      <4>2. p + 4 + Len(v) > Len(T)
        BY <1>7, <3>0, <3>3
      <4> HIDE DEF n, c
      <4>3. n \in Nat /\ n <= Len(v) /\ p + 4 + n = Len(T) + 1
        BY <1>7, <3>0, <4>1, <4>2
      <4> QED BY <1>7, <3>1, <3>3, <4>3
    <3> QED BY <3>2, <3>3
  <2>10. c = p + 4 + Len(v)
    OBVIOUS
  <2> HIDE DEF n, c
  <2>3. S \in SUBSET Nat /\ \A k : k \in S <=> k \in p + 4 .. Len(T) + 1 /\ (k > Len(T) \/ T[k] \notin Numerals)
    BY <1>1, <1>7, <2>1
  <2>4. p + 4 + n \in S
    <3>1. CASE c <= Len(T)
      <4>1. p + 4 + n = c /\ c \in 1 .. Len(T) /\ c \in p + 4 .. Len(T) + 1
        BY <1>1, <1>7, <2>2, <2>10, <3>1
      <4>2. T[c] = Comma /\ Comma \notin Numerals
        BY <1>8, <1>9, <2>10, <4>1, MarksDiffer
      <4> QED BY <2>3, <4>1, <4>2
    <3>2. CASE ~(c <= Len(T))
      BY <1>1, <1>7, <2>2, <2>3, <3>2
    <3> QED BY <3>1, <3>2
  <2>5. \A k \in S : p + 4 + n <= k
    <3> SUFFICES ASSUME NEW k \in S, k < p + 4 + n PROVE FALSE
      BY <1>1, <2>2, <2>3
    <3>1. k \in Nat /\ k >= p + 4 /\ k <= Len(T) /\ T[k] \notin Numerals
      BY <1>1, <1>7, <2>2, <2>3
    <3>2. k - (p + 3) \in 1 .. Len(v) /\ p + 3 + (k - (p + 3)) = k /\ k \in 1 .. Len(T)
      BY <1>1, <1>7, <2>2, <3>1
    <3>3. T[k] = v[k - (p + 3)]
      BY <1>8, <1>9, <3>2
    <3> QED BY <1>3, <3>1, <3>2, <3>3
  <2>6. stop = p + 4 + n
    <3>1. stop \in S /\ \A j \in S : stop <= j
      BY <2>3, <2>4, MinIsLeast
    <3> HIDE DEF S, stop
    <3>2. stop \in Nat /\ stop <= p + 4 + n /\ p + 4 + n <= stop
      BY <2>3, <2>4, <2>5, <3>1
    <3> QED BY <1>1, <2>2, <3>2
  <2> HIDE DEF S, stop
  <2>7. IsSeq(part) /\ Continues(v, part) /\ (n = Len(v) => part = v)
    <3>1. p + 4 \in Nat \ {0} /\ (p + 4) + n - 1 <= Len(T)
      BY <1>1, <1>7, <2>2
    <3>2. \A i \in 1 .. n : T[(p + 4) + i - 1] = v[i]
      <4> SUFFICES ASSUME NEW i \in 1 .. n PROVE T[(p + 4) + i - 1] = v[i]
        OBVIOUS
      <4>1. (p + 4) + i - 1 = p + 3 + i /\ p + 3 + i \in 1 .. Len(T) /\ i \in 1 .. Len(v)
        BY <1>1, <1>7, <2>2
      <4> QED BY <1>8, <1>9, <4>1
    <3>3. /\ IsSeq(SubSeq(T, p + 4, (p + 4) + n - 1)) /\ Continues(v, SubSeq(T, p + 4, (p + 4) + n - 1))
          /\ (n = Len(v) => SubSeq(T, p + 4, (p + 4) + n - 1) = v)
      BY <1>1, <2>2, <3>1, <3>2, ValueThere
    <3>4. part = SubSeq(T, p + 4, (p + 4) + n - 1)
      BY <1>1, <2>1, <2>2, <2>6
    <3> QED BY <3>3, <3>4
  <2> HIDE DEF part
  <2>8. IsPrefix(part, v)
    BY <1>1, <2>7, BeginsThere DEF Continues
  <2>9. T = W /\ len = Len(T) => extract_u64(T, len, "corr") = v
    <3> SUFFICES ASSUME T = W, len = Len(T) PROVE extract_u64(T, len, "corr") = v
      OBVIOUS
    <3>1. c <= Len(T)
      BY <1>9, <2>10
    <3>2. n = Len(v) /\ stop # at + 4 /\ at <= len
      BY <1>1, <1>7, <1>10, <2>1, <2>2, <2>6, <3>1
    <3>3. ~(at > len)
      BY <1>1, <1>7, <2>1, <3>2
    <3> QED BY <1>4, <2>1, <2>7, <3>2, <3>3
  <2> QED BY <1>4, <1>5, <2>8, <2>9 DEF v
<1>11. CASE ~(p + 3 <= Len(T))
  <2>1. at = 0
    BY <1>2, <1>11
  <2>2. T # W
    BY <1>1, <1>7, <1>9, <1>11
  <2> QED BY <1>4, <1>5, <2>1, <2>2
<1> QED BY <1>10, <1>11

\* A quote that is not the first is behind a backslash.
Escaped(T, s, k) == T[k] = "quote" => k > s /\ T[k - 1] = Backslash
EndsBody(T, len, s, e) ==
  /\ e \in s .. Len(T) + 1
  /\ \A k \in s .. e - 1 : Escaped(T, s, k)
  /\ e <= len /\ e <= Len(T) => T[e] = "quote" /\ (e = s \/ T[e - 1] # Backslash)

\* Where the scan for the end of a body stops.
LEMMA BodyEnds ==
  ASSUME NEW T, IsSeq(T), NEW len \in Nat, NEW start \in 1 .. Len(T) + 1
  PROVE  EndsBody(T, len, start, BodyEnd(T, len, start))
<1> DEFINE L == Len(T)
           out == {i \in Nat : i > len \/ i > Len(T)}
           skip == {i \in Nat : i <= len /\ i < Len(T) /\ T[i] = Backslash /\ T[i + 1] = "quote"}
           found == {i \in Nat : i <= len /\ i <= Len(T) /\ T[i] = "quote"}
           Scan(f) == f = [i \in Nat |->
             CASE i > len \/ i > Len(T) -> i
               [] i <= len /\ i < Len(T) /\ T[i] = Backslash /\ T[i + 1] = "quote" -> f[i + 2]
               [] i <= len /\ i <= Len(T) /\ T[i] = "quote" -> i
               [] OTHER -> f[i + 1]]
           stop == out \cup found
           step == [i \in Nat |-> IF i \in skip THEN i + 2 ELSE i + 1]
           scan == CHOOSE f : Scan(f)
<1>1. L \in Nat
  BY SeqFacts
<1>2. BodyEnd(T, len, start) = scan[start]
  BY Zenon DEF BodyEnd, Backslash
<1>3. \A i \in Nat : (i \in out => i \notin skip) /\ (i \in skip => i \notin found)
  BY <1>1, MarksDiffer
<1>4. step \in [Nat -> Nat] /\ \A i \in Nat : step[i] = IF i \in skip THEN i + 2 ELSE i + 1
  <2> HIDE DEF skip
  <2> QED OBVIOUS
<1>5. \A f : Scan(f) <=> Searches(f, stop, step)
  <2> SUFFICES ASSUME NEW f
               PROVE [i \in Nat |->
                        CASE i > len \/ i > Len(T) -> i
                          [] i <= len /\ i < Len(T) /\ T[i] = Backslash /\ T[i + 1] = "quote" -> f[i + 2]
                          [] i <= len /\ i <= Len(T) /\ T[i] = "quote" -> i
                          [] OTHER -> f[i + 1]]
                     = [i \in Nat |-> IF i \in stop THEN i ELSE f[step[i]]]
    BY Zenon DEF Searches
  <2> SUFFICES ASSUME NEW i \in Nat
               PROVE (CASE i > len \/ i > Len(T) -> i
                        [] i <= len /\ i < Len(T) /\ T[i] = Backslash /\ T[i + 1] = "quote" -> f[i + 2]
                        [] i <= len /\ i <= Len(T) /\ T[i] = "quote" -> i
                        [] OTHER -> f[i + 1])
                     = IF i \in stop THEN i ELSE f[step[i]]
    OBVIOUS
  <2>1. /\ i \in out <=> i > len \/ i > Len(T)
        /\ i \in skip <=> i <= len /\ i < Len(T) /\ T[i] = Backslash /\ T[i + 1] = "quote"
        /\ i \in found <=> i <= len /\ i <= Len(T) /\ T[i] = "quote"
    OBVIOUS
  <2>2. (i \in out => i \notin skip) /\ (i \in skip => i \notin found) /\ (i \in out => i \notin found)
    BY <1>1, <1>3
  <2>3. step[i] = IF i \in skip THEN i + 2 ELSE i + 1
    BY <1>4
  <2> HIDE DEF out, skip, found, step
  <2>4. CASE i \in out
    BY <2>1, <2>2, <2>4
  <2>5. CASE i \in skip
    BY <2>1, <2>2, <2>3, <2>5
  <2>6. CASE i \in found
    BY <2>1, <2>2, <2>6
  <2>7. CASE i \notin out /\ i \notin skip /\ i \notin found
    BY <2>1, <2>3, <2>7
  <2> QED BY <2>4, <2>5, <2>6, <2>7
<1>6. \A i \in Nat : i \notin stop => i <= L /\ step[i] \in Nat /\ step[i] > i /\ step[i] <= L + 1
  <2> SUFFICES ASSUME NEW i \in Nat, i \notin stop
               PROVE  i <= L /\ step[i] \in Nat /\ step[i] > i /\ step[i] <= L + 1
    BY Zenon
  <2>1. i <= L
    BY <1>1
  <2>2. i \in skip => i + 2 <= L + 1
    BY <1>1
  <2>3. step[i] = IF i \in skip THEN i + 2 ELSE i + 1
    BY <1>4
  <2> HIDE DEF skip, step, stop, L
  <2> QED BY <1>1, <2>1, <2>2, <2>3
<1>7. Scan(scan)
  <2>1. stop \in SUBSET Nat
    OBVIOUS
  <2>2. \A i \in Nat : i \notin stop => i <= L /\ step[i] > i
    BY <1>6
  <2> HIDE DEF Scan, step, stop, L
  <2>3. \E f : Searches(f, stop, step)
    BY <1>1, <1>4, <2>1, <2>2, SearchExists
  <2>4. \E f : Scan(f)
    BY <1>5, <2>3
  <2> QED BY <2>4
<1> HIDE DEF scan, Scan
<1>8. Searches(scan, stop, step)
  BY <1>5, <1>7
<1>9. \A i \in 0 .. L + 1 : scan[i] \in i .. L + 1
  <2> HIDE DEF stop, step, L
  <2> QED BY <1>1, <1>6, <1>8, SearchEnds
<1>10. \A i \in Nat : scan[i] = IF i \in stop THEN i ELSE scan[step[i]]
  <2> HIDE DEF stop, step
  <2>1. scan = [i \in Nat |-> IF i \in stop THEN i ELSE scan[step[i]]]
    BY <1>8 DEF Searches
  <2> QED BY <2>1
\* From the end of the text back: what holds from the places behind holds here.
<1> DEFINE Good(i) == EndsBody(T, len, i, scan[i])
           S == {n \in Nat : \A i \in 0 .. L + 1 : i + n >= L + 1 => Good(i)}
<1>11. ASSUME NEW i \in 0 .. L + 1, \A j \in i + 1 .. L + 1 : Good(j) PROVE Good(i)
  <2>0. i \in Nat /\ scan[i] \in i .. L + 1
    BY <1>1, <1>9
  <2>1. CASE i \in stop
    <3>1. scan[i] = i
      BY <1>10, <2>0, <2>1
    <3>2. i <= len /\ i <= Len(T) => T[i] = "quote"
      BY <1>1, <2>0, <2>1
    <3> HIDE DEF stop
    <3>3. i .. i - 1 = {}
      BY <2>0
    <3> QED BY <1>1, <2>0, <3>1, <3>2, <3>3 DEF EndsBody
  <2>2. CASE i \in skip
    <3>1. i \notin stop
      BY <1>3, <2>2
    <3>2. scan[i] = scan[i + 2] /\ i + 2 \in i + 1 .. L + 1
      <4>1. step[i] = i + 2
        BY <1>4, <2>0, <2>2
      <4> QED BY <1>1, <1>6, <1>10, <2>0, <3>1, <4>1
    <3>3. Good(i + 2)
      BY <1>11, <3>2
    <3>4. T[i] = Backslash /\ T[i + 1] = "quote" /\ Backslash # "quote"
      BY <2>2, MarksDiffer
    <3> DEFINE e == scan[i]
    <3>5. /\ e \in i + 2 .. Len(T) + 1 /\ \A k \in i + 2 .. e - 1 : Escaped(T, i + 2, k)
          /\ e <= len /\ e <= Len(T) => T[e] = "quote" /\ (e = i + 2 \/ T[e - 1] # Backslash)
      BY <3>2, <3>3 DEF EndsBody
    <3> HIDE DEF e, scan, stop, skip, found, out
    <3>6. \A k \in i .. e - 1 : Escaped(T, i, k)
      <4> SUFFICES ASSUME NEW k \in i .. e - 1, T[k] = "quote" PROVE k > i /\ T[k - 1] = Backslash
        BY DEF Escaped
      <4>1. k = i \/ k = i + 1 \/ k \in i + 2 .. e - 1
        BY <2>0, <3>5
      <4>2. CASE k = i
        BY <3>4, <4>2
      <4>3. CASE k = i + 1
        BY <2>0, <3>4, <4>3
      <4>4. CASE k \in i + 2 .. e - 1
        <5>1. k > i + 2 /\ T[k - 1] = Backslash
          BY <3>5, <4>4 DEF Escaped
        <5> QED BY <2>0, <4>4, <5>1
      <4> QED BY <4>1, <4>2, <4>3, <4>4
    <3>7. e = i + 2 => T[e - 1] # Backslash
      BY <2>0, <3>4
    <3>8. EndsBody(T, len, i, e)
      BY <1>1, <2>0, <3>5, <3>6, <3>7 DEF EndsBody
    <3> QED BY <3>8 DEF e
  <2>3. CASE i \notin stop /\ i \notin skip
    <3>2. scan[i] = scan[i + 1] /\ i + 1 \in i + 1 .. L + 1
      <4>1. step[i] = i + 1
        BY <1>4, <2>0, <2>3
      <4> QED BY <1>1, <1>6, <1>10, <2>0, <2>3, <4>1
    <3>3. Good(i + 1)
      BY <1>11, <3>2
    <3>4. T[i] # "quote" /\ i <= len /\ i <= Len(T)
      BY <1>1, <2>0, <2>3
    <3>40. i < Len(T) => ~(T[i] = Backslash /\ T[i + 1] = "quote")
      BY <1>1, <2>0, <2>3, <3>4
    <3> DEFINE e == scan[i]
    <3>5. /\ e \in i + 1 .. Len(T) + 1 /\ \A k \in i + 1 .. e - 1 : Escaped(T, i + 1, k)
          /\ e <= len /\ e <= Len(T) => T[e] = "quote" /\ (e = i + 1 \/ T[e - 1] # Backslash)
      BY <3>2, <3>3 DEF EndsBody
    <3> HIDE DEF e, scan, stop, skip, found, out
    <3>6. \A k \in i .. e - 1 : Escaped(T, i, k)
      <4> SUFFICES ASSUME NEW k \in i .. e - 1, T[k] = "quote" PROVE k > i /\ T[k - 1] = Backslash
        BY DEF Escaped
      <4>1. k = i \/ k \in i + 1 .. e - 1
        BY <2>0, <3>5
      <4>2. CASE k = i
        BY <3>4, <4>2
      <4>4. CASE k \in i + 1 .. e - 1
        <5>1. k > i + 1 /\ T[k - 1] = Backslash
          BY <3>5, <4>4 DEF Escaped
        <5> QED BY <2>0, <4>4, <5>1
      <4> QED BY <4>1, <4>2, <4>4
    <3>7. e <= len /\ e <= Len(T) /\ e = i + 1 => T[e - 1] # Backslash
      <4> SUFFICES ASSUME e <= len, e <= Len(T), e = i + 1 PROVE T[e - 1] # Backslash
        OBVIOUS
      <4>1. i < Len(T) /\ e - 1 = i /\ T[i + 1] = "quote"
        BY <1>1, <2>0, <3>5
      <4> QED BY <3>40, <4>1
    <3>8. EndsBody(T, len, i, e)
      BY <1>1, <2>0, <3>5, <3>6, <3>7 DEF EndsBody
    <3> QED BY <3>8 DEF e
  <2> QED BY <2>1, <2>2, <2>3
<1> HIDE DEF Good, stop, step, skip, found, out
<1>12. 0 \in S
  <2> SUFFICES ASSUME NEW i \in 0 .. L + 1, i + 0 >= L + 1 PROVE Good(i)
    OBVIOUS
  <2>1. i + 1 .. L + 1 = {}
    BY <1>1
  <2> QED BY <1>11, <2>1
<1>13. ASSUME NEW n \in 0 .. L + 1 - 1, n \in S PROVE n + 1 \in S
  <2> SUFFICES ASSUME NEW i \in 0 .. L + 1, i + (n + 1) >= L + 1 PROVE Good(i)
    BY <1>1
  <2>1. \A j \in i + 1 .. L + 1 : j \in 0 .. L + 1 /\ j + n >= L + 1
    BY <1>1
  <2>2. \A j \in i + 1 .. L + 1 : Good(j)
    BY <1>13, <2>1
  <2> QED BY <1>11, <2>2
<1>14. L + 1 \in S
  <2>1. L + 1 \in Nat
    BY <1>1
  <2> HIDE DEF S
  <2>2. \A n \in 0 .. L + 1 : n \in S
    BY <1>12, <1>13, <2>1, UpTo
  <2> QED BY <1>1, <2>2
<1>15. start \in 0 .. L + 1 /\ start + (L + 1) >= L + 1
  BY <1>1
<1>16. Good(start)
  BY <1>14, <1>15
<1> QED BY <1>2, <1>16 DEF Good

\* SafeBody by places.
LEMMA SafeIs ==
  ASSUME NEW b, IsSeq(b)
  PROVE  SafeBody(b) <=> /\ \A k \in 1 .. Len(b) : b[k] = "quote" => k > 1 /\ b[k - 1] = Backslash
                         /\ Len(b) > 0 => b[Len(b)] # Backslash
<1>1. DOMAIN b = 1 .. Len(b) /\ (b = <<>> <=> Len(b) = 0) /\ Len(b) \in Nat
  BY SeqFacts
<1>2. b # <<>> <=> Len(b) > 0
  BY <1>1
<1>3. Last(b) = b[Len(b)]
  BY DEF Last
<1>4. SafeBody(b) <=> /\ \A k \in DOMAIN b : b[k] = "quote" => k > 1 /\ b[k - 1] = Backslash
                      /\ b # <<>> => Last(b) # Backslash
  BY Zenon DEF SafeBody, Backslash
<1> QED BY <1>1, <1>2, <1>3, <1>4

\* Nothing is a beginning of everything.
LEMMA NothingFirst ==
  ASSUME NEW v, IsSeq(v)
  PROVE  IsPrefix(<<>>, v)
<1>1. IsSeq(<<>>) /\ Len(<<>>) = 0
  <2>1. <<>> \in Seq({})
    OBVIOUS
  <2> QED BY <2>1, SeqIs
<1>2. Len(v) \in Nat
  BY SeqFacts
<1>3. Len(<<>>) <= Len(v) /\ \A i \in 1 .. Len(<<>>) : v[i] = <<>>[i]
  BY <1>1, <1>2
<1> QED BY <1>1, <1>3, BeginsThere

\* What arrives of the body.
LEMMA BodyArrives ==
  ASSUME NEW m, Plain(m), BodySize \in Nat \ {0},
         NEW T, IsSeq(T), Continues(WireText(m), T), NEW len \in Nat
  PROVE  /\ SafeBody(m.body) => IsPrefix(extract_body(T, len), m.body)
         /\ T = WireText(m) /\ len = Len(T) /\ Len(m.body) < BodySize - 1 =>
              (extract_body(T, len) = m.body <=> SafeBody(m.body))
<1> DEFINE W == WireText(m)
           p == Field(m).body
           v == m.body
           at == Find(T, KeyOf("body") \o <<"quote">>)
           e == BodyEnd(T, len, at + 5)
           part == SubSeq(T, at + 5, e - 1)
<1>1. p \in Nat \ {0} /\ IsSeq(v) /\ QuotedAt(W, p, "body", v)
  BY QuotedIn DEF Plain
<1>2. at = IF p + 4 <= Len(T) THEN p ELSE 0
  <2>1. "body" \in Heads \cup {"body"}
    OBVIOUS
  <2>2. Find(T, KeyOf("body") \o <<"quote">>) = IF Field(m)["body"] + 4 <= Len(T) THEN Field(m)["body"] ELSE 0
    BY <2>1, QuotedFound
  <2> QED BY <2>2
<1>4. extract_body(T, len) = IF at = 0 \/ at > len THEN <<>> ELSE CutTo(BodySize, part)
  BY DEF extract_body
<1>5. Continues(W, T) /\ IsSeq(W) /\ (T = WireText(m) <=> T = W)
  BY TextLayout DEF Plain
<1>6. IsPrefix(<<>>, v)
  BY <1>1, NothingFirst
<1>60. SafeBody(v) <=> /\ \A k \in 1 .. Len(v) : v[k] = "quote" => k > 1 /\ v[k - 1] = Backslash
                       /\ Len(v) > 0 => v[Len(v)] # Backslash
  BY <1>1, SafeIs
<1> HIDE DEF W, p, v, at
<1>7. Len(T) \in Nat /\ Len(W) \in Nat /\ Len(v) \in Nat
  BY <1>1, <1>5, SeqFacts
<1>8. Len(T) <= Len(W) /\ \A i \in 1 .. Len(T) : W[i] = T[i]
  BY <1>5 DEF Continues
<1>9. /\ p + 5 + Len(v) <= Len(W) /\ W[p + 5 + Len(v)] = "quote"
      /\ \A i \in 1 .. Len(v) : W[p + 4 + i] = v[i]
  BY <1>1 DEF QuotedAt
<1>10. CASE ~(p + 4 <= Len(T))
  <2>1. at = 0
    BY <1>2, <1>10
  <2>2. T # W
    BY <1>1, <1>7, <1>9, <1>10
  <2> QED BY <1>4, <1>5, <1>6, <2>1, <2>2 DEF v
<1>11. CASE p + 4 <= Len(T)
  <2>1. at = p /\ at # 0
    BY <1>1, <1>2, <1>11
  <2> DEFINE s == p + 5
             c == p + 5 + Len(v)
  <2>2. s \in 1 .. Len(T) + 1 /\ s \in Nat \ {0} /\ c \in Nat /\ c = s + Len(v)
    BY <1>1, <1>7, <1>11
  <2>3. EndsBody(T, len, s, e)
    BY <2>1, <2>2, BodyEnds
  <2>30. part = SubSeq(T, s, e - 1)
    BY <2>1
  <2> HIDE DEF e, s, part
  <2>4. /\ e \in s .. Len(T) + 1 /\ \A k \in s .. e - 1 : T[k] = "quote" => k > s /\ T[k - 1] = Backslash
        /\ e <= len /\ e <= Len(T) => T[e] = "quote" /\ (e = s \/ T[e - 1] # Backslash)
    BY <2>3 DEF EndsBody, Escaped
  <2>5. e \in Nat /\ s <= e /\ e <= Len(T) + 1
    BY <2>2, <2>4
  \* In the text, the value is behind its beginning.
  <2>6. \A i \in 1 .. Len(v) : s + i - 1 <= Len(T) => T[s + i - 1] = v[i]
    <3> SUFFICES ASSUME NEW i \in 1 .. Len(v), s + i - 1 <= Len(T) PROVE T[s + i - 1] = v[i]
      OBVIOUS
    <3>1. s + i - 1 = p + 4 + i /\ s + i - 1 \in 1 .. Len(T)
      BY <1>1, <1>7, <2>2 DEF s
    <3> QED BY <1>8, <1>9, <3>1
  <2>7. c <= Len(T) => T[c] = "quote"
    <3> SUFFICES ASSUME c <= Len(T) PROVE T[c] = "quote"
      OBVIOUS
    <3>1. c \in 1 .. Len(T)
      BY <1>1, <1>7, <2>2
    <3> QED BY <1>8, <1>9, <3>1
  <2> HIDE DEF c
  <2>8. SafeBody(v) => e <= c
    <3> SUFFICES ASSUME SafeBody(v), c < e PROVE FALSE
      BY <2>2, <2>5
    <3>1. c \in s .. e - 1 /\ c <= Len(T)
      BY <1>7, <2>2, <2>5
    <3>2. c > s /\ T[c - 1] = Backslash
      BY <2>4, <2>7, <3>1
    <3>3. Len(v) > 0 /\ Len(v) \in 1 .. Len(v) /\ s + Len(v) - 1 = c - 1 /\ c - 1 <= Len(T)
      BY <1>7, <2>2, <3>1, <3>2
    <3>4. T[c - 1] = v[Len(v)]
      BY <2>6, <3>3
    <3> QED BY <1>60, <3>2, <3>3, <3>4
  <2>9. e <= c => /\ IsSeq(part) /\ Len(part) = e - s /\ Continues(v, part)
                  /\ (e = c => part = v)
    <3> SUFFICES ASSUME e <= c
                 PROVE  /\ IsSeq(part) /\ Len(part) = e - s /\ Continues(v, part)
                        /\ (e = c => part = v)
      OBVIOUS
    <3> DEFINE n == e - s
    <3>1. /\ n \in Nat /\ n <= Len(v) /\ s + n - 1 <= Len(T) /\ s + n - 1 = e - 1 /\ s \in Nat \ {0}
          /\ (e = c => n = Len(v))
      BY <1>7, <2>2, <2>5
    <3>2. \A i \in 1 .. n : T[s + i - 1] = v[i]
      <4> SUFFICES ASSUME NEW i \in 1 .. n PROVE T[s + i - 1] = v[i]
        OBVIOUS
      <4> HIDE DEF n
      <4>1. i \in 1 .. Len(v) /\ s + i - 1 <= Len(T)
        BY <1>7, <2>2, <3>1
      <4> QED BY <2>6, <4>1
    <3>3. IsSeq(v) /\ IsSeq(T)
      BY <1>1
    <3> HIDE DEF n
    <3>4. n \in Nat /\ n <= Len(v) /\ s + n - 1 <= Len(T) /\ s \in Nat \ {0}
      BY <3>1
    <3>5. /\ IsSeq(SubSeq(T, s, s + n - 1)) /\ Len(SubSeq(T, s, s + n - 1)) = n
          /\ Continues(v, SubSeq(T, s, s + n - 1)) /\ (n = Len(v) => SubSeq(T, s, s + n - 1) = v)
      BY <3>2, <3>3, <3>4, ValueThere
    <3>6. SubSeq(T, s, s + n - 1) = part
      BY <2>30, <3>1
    <3> QED BY <3>1, <3>5, <3>6 DEF n
  <2>10. SafeBody(v) => IsPrefix(extract_body(T, len), v)
    <3> SUFFICES ASSUME SafeBody(v), ~(at > len) PROVE IsPrefix(CutTo(BodySize, part), v)
      BY <1>4, <1>6, <2>1
    <3> DEFINE d == CutTo(BodySize, part)
    <3>1. IsSeq(part) /\ Continues(v, part)
      BY <2>8, <2>9
    <3>2. IsSeq(d) /\ Continues(part, d)
      BY <3>1, CutKeeps
    <3> HIDE DEF d
    <3>3. IsSeq(v)
      BY <1>1
    <3>4. Continues(v, d)
      BY <3>1, <3>2, <3>3, ContinuesOn
    <3>5. IsPrefix(d, v)
      BY <3>2, <3>3, <3>4, BeginsThere DEF Continues
    <3> QED BY <3>5 DEF d
  <2>11. ASSUME T = W, len = Len(T), Len(v) < BodySize - 1
         PROVE  extract_body(T, len) = v <=> SafeBody(v)
    <3>1. c <= Len(T) /\ c < Len(T) + 1 /\ at <= len /\ ~(at > len)
      BY <1>1, <1>7, <1>9, <1>11, <2>1, <2>2, <2>11 DEF c
    <3>2. extract_body(T, len) = CutTo(BodySize, part)
      BY <1>4, <2>1, <3>1
    <3>3. ASSUME SafeBody(v) PROVE extract_body(T, len) = v
      <4>1. e <= c /\ e <= Len(T) /\ e <= len
        BY <2>2, <2>5, <2>8, <2>11, <3>1, <3>3
      <4>2. T[e] = "quote" /\ (e = s \/ T[e - 1] # Backslash)
        BY <2>4, <4>1
      <4>3. e = c
        <5> SUFFICES ASSUME e # c PROVE FALSE
          OBVIOUS
        <5> DEFINE k == e - s + 1
        <5>1. k \in 1 .. Len(v) /\ s + k - 1 = e
          BY <1>7, <2>2, <2>5, <4>1
        <5> HIDE DEF k
        <5>2. v[k] = "quote"
          BY <2>6, <4>1, <4>2, <5>1
        <5>3. k > 1 /\ v[k - 1] = Backslash
          BY <1>60, <3>3, <5>1, <5>2
        <5>4. k - 1 \in 1 .. Len(v) /\ s + (k - 1) - 1 = e - 1 /\ e - 1 <= Len(T) /\ e # s
          BY <1>7, <2>2, <2>5, <5>1, <5>3
        <5>5. T[e - 1] = v[k - 1]
          BY <2>6, <5>4
        <5> QED BY <4>2, <5>3, <5>4, <5>5
      <4>4. part = v
        BY <2>9, <4>1, <4>3
      <4>5. Len(v) < BodySize
        BY <1>7, <2>11
      <4>6. IsSeq(v)
        BY <1>1
      <4>7. CutTo(BodySize, v) = v
        BY <4>5, <4>6, CutKeeps
      <4> QED BY <3>2, <4>4, <4>7
    <3>4. ASSUME extract_body(T, len) = v PROVE SafeBody(v)
      <4>1. IsSeq(part) /\ Len(part) = e - s
        <5>1. s \in Nat /\ s >= 1 /\ e - 1 \in Nat /\ e - 1 <= Len(T) /\ (s <= e - 1 \/ e = s)
          BY <1>7, <2>2, <2>5
        <5>2. /\ IsSeq(SubSeq(T, s, e - 1))
              /\ Len(SubSeq(T, s, e - 1)) = IF s <= e - 1 THEN (e - 1) - s + 1 ELSE 0
          BY <5>1, PartFacts
        <5>3. (IF s <= e - 1 THEN (e - 1) - s + 1 ELSE 0) = e - s
          BY <2>2, <2>5, <5>1
        <5> QED BY <2>30, <5>2, <5>3
      <4>2. Len(v) = IF e - s <= BodySize - 1 THEN e - s ELSE BodySize - 1
        <5>1. Len(CutTo(BodySize, part)) = IF Len(part) <= BodySize - 1 THEN Len(part) ELSE BodySize - 1
          BY <4>1, CutKeeps
        <5> QED BY <3>2, <3>4, <4>1, <5>1
      <4>3. e = c
        BY <1>7, <2>2, <2>5, <2>11, <4>2
      <4>4. ASSUME NEW k \in 1 .. Len(v), v[k] = "quote" PROVE k > 1 /\ v[k - 1] = Backslash
        <5>1. s + k - 1 \in s .. e - 1 /\ s + k - 1 <= Len(T) /\ s + k - 1 \in Nat
          BY <1>7, <2>2, <3>1, <4>3
        <5>2. T[s + k - 1] = "quote"
          BY <2>6, <4>4, <5>1
        <5>3. s + k - 1 > s /\ T[(s + k - 1) - 1] = Backslash
          BY <2>4, <5>1, <5>2
        <5>4. k > 1 /\ k - 1 \in 1 .. Len(v) /\ s + (k - 1) - 1 = (s + k - 1) - 1 /\ s + (k - 1) - 1 <= Len(T)
          BY <1>7, <2>2, <5>1, <5>3
        <5>5. T[s + (k - 1) - 1] = v[k - 1]
          BY <2>6, <5>4
        <5> QED BY <5>3, <5>4, <5>5
      <4>5. ASSUME Len(v) > 0 PROVE v[Len(v)] # Backslash
        <5>1. e <= len /\ e <= Len(T) /\ e # s
          BY <1>7, <2>2, <2>11, <3>1, <4>3, <4>5
        <5>2. T[e - 1] # Backslash
          BY <2>4, <5>1
        <5>3. Len(v) \in 1 .. Len(v) /\ s + Len(v) - 1 = e - 1 /\ s + Len(v) - 1 <= Len(T)
          BY <1>7, <2>2, <3>1, <4>3, <4>5
        <5>4. T[s + Len(v) - 1] = v[Len(v)]
          BY <2>6, <5>3
        <5> QED BY <5>2, <5>3, <5>4
      <4> QED BY <1>60, <4>4, <4>5
    <3> QED BY <3>3, <3>4
  <2> QED BY <1>5, <2>10, <2>11 DEF v
<1> QED BY <1>10, <1>11

\* What decoding gives of a plain message.
LEMMA PlainArrives ==
  ASSUME NEW m, Plain(m), BodySize \in Nat \ {0}, HeadSize \in Nat \ {0},
         \A f \in Heads : Len(m[f]) < HeadSize,
         NEW T, IsSeq(T), Continues(WireText(m), T), NEW len \in Nat, NEW whole \in BOOLEAN,
         whole <=> T = WireText(m) /\ len = Len(T)
  PROVE  /\ \A f \in Heads : extract_str(T, len, f) = m[f] \/ (extract_str(T, len, f) = <<>> /\ ~whole)
         /\ \/ extract_u64(T, len, "corr") = m.corr
            \/ ~whole /\ (IsPrefix(extract_u64(T, len, "corr"), m.corr)
                          \/ extract_u64(T, len, "corr") = <<"0">>)
         /\ SafeBody(m.body) => IsPrefix(extract_body(T, len), m.body)
         /\ whole /\ Len(m.body) < BodySize - 1 => (extract_body(T, len) = m.body <=> SafeBody(m.body))
<1>1. ASSUME NEW f \in Heads
      PROVE  extract_str(T, len, f) = m[f] \/ (extract_str(T, len, f) = <<>> /\ ~whole)
  <2>1. Len(m[f]) < HeadSize
    OBVIOUS
  <2>2. /\ extract_str(T, len, f) = m[f] \/ extract_str(T, len, f) = <<>>
        /\ T = WireText(m) /\ len = Len(T) => extract_str(T, len, f) = m[f]
    BY <2>1, HeadArrives
  <2> QED BY <2>2
<1>2. /\ IsPrefix(extract_u64(T, len, "corr"), m.corr) \/ extract_u64(T, len, "corr") = <<"0">>
      /\ whole => extract_u64(T, len, "corr") = m.corr
  BY NumberArrives
<1>3. /\ SafeBody(m.body) => IsPrefix(extract_body(T, len), m.body)
      /\ whole /\ Len(m.body) < BodySize - 1 => (extract_body(T, len) = m.body <=> SafeBody(m.body))
  BY BodyArrives
<1> QED BY <1>1, <1>2, <1>3

\* The messages that are sent are texts.
LEMMA MessageTexts ==
  ASSUME NEW m \in Messages
  PROVE  /\ FieldTexts(m) /\ \A i \in 1 .. Len(m.corr) : m.corr[i] \in Numerals
         /\ m.corr # <<>> /\ \A f \in Heads : Len(m[f]) < HeadSize
         /\ HeadSize \in Nat \ {0} /\ BodySize \in Nat \ {0}
<1>1. /\ HeadSize \in Nat \ {0} /\ BodySize \in Nat \ {0}
      /\ m.corr \in Seq({"0", "7", "8"}) /\ m.corr # <<>> /\ m.body \in Seq(ToSet(m.body))
      /\ \A f \in {"type", "from", "to", "topic"} : m[f] \in Seq(ToSet(m[f])) /\ Len(m[f]) < HeadSize
  BY WireAssumption
<1>2. /\ m.type \in Seq(ToSet(m.type)) /\ m.from \in Seq(ToSet(m.from))
      /\ m.to \in Seq(ToSet(m.to)) /\ m.topic \in Seq(ToSet(m.topic))
  BY <1>1
<1>3. IsSeq(m.type) /\ IsSeq(m.from) /\ IsSeq(m.to) /\ IsSeq(m.topic)
  BY <1>2, SeqIs
<1>4. IsSeq(m.body) /\ IsSeq(m.corr)
  BY <1>1, SeqIs
<1>5. \A i \in 1 .. Len(m.corr) : m.corr[i] \in Numerals
  BY <1>1 DEF Numerals
<1> QED BY <1>1, <1>3, <1>4, <1>5 DEF FieldTexts, Heads

\* A message that was decoded came from the text that was sent, or its beginning.
Decoded(text, len) ==
  [type |-> extract_str(text, len, "type"), from |-> extract_str(text, len, "from"),
   to |-> extract_str(text, len, "to"), topic |-> extract_str(text, len, "topic"),
   corr |-> extract_u64(text, len, "corr"), body |-> extract_body(text, len)]
WireInv ==
  \/ wire = <<>> /\ received = NotYet
  \/ /\ sent \in Messages /\ IsSeq(wire) /\ Continues(WireText(sent), wire)
     /\ \/ received = NotYet
        \/ \E len \in Nat : received = [len |-> len, message |-> Decoded(wire, len)]

\* Encoding and decoding keep the invariant.
LEMMA WireInvNext ==
  ASSUME WireInv, [WireNext]_wireVars
  PROVE  WireInv'
<1>1. ASSUME NEW m \in Messages, NEW sz \in OutSizes, hk_msg_encode(m, sz) PROVE WireInv'
  <2> DEFINE W == WireText(m)
             c == CutTo(sz, W)
  <2>1. sent' = m /\ wire' = c /\ received' = NotYet
    BY <1>1 DEF hk_msg_encode
  <2>2. IsSeq(W)
    BY MessageTexts, TextLayout
  <2>3. sz \in Nat \ {0}
    BY WireAssumption
  <2> HIDE DEF W
  <2>4. IsSeq(c) /\ Continues(W, c)
    BY <2>2, <2>3, CutKeeps
  <2> QED BY <2>1, <2>4 DEF WireInv, W
<1>2. ASSUME NEW len \in 1 .. Len(WireText(sent)), hk_msg_decode(len) PROVE WireInv'
  <2>1. /\ wire # <<>> /\ sent' = sent /\ wire' = wire
        /\ received' = [len |-> len, message |-> Decoded(wire, len)]
    BY <1>2 DEF hk_msg_decode, Decoded
  <2>2. sent \in Messages /\ IsSeq(wire) /\ Continues(WireText(sent), wire)
    BY <2>1 DEF WireInv
  <2>3. len \in Nat
    <3>1. Len(WireText(sent)) \in Nat
      <4>1. IsSeq(WireText(sent))
        BY <2>2, MessageTexts, TextLayout
      <4> QED BY <4>1, SeqFacts
    <3> QED BY <3>1
  <2>4. received' = [len |-> len, message |-> Decoded(wire', len)]
    BY <2>1
  <2> QED BY <2>1, <2>2, <2>3, <2>4 DEF WireInv
<1>3. ASSUME UNCHANGED wireVars PROVE WireInv'
  BY <1>3 DEF WireInv, wireVars
<1> QED BY <1>1, <1>2, <1>3 DEF WireNext

\* The invariant says that fields keep apart.
LEMMA WireInvImplies ==
  ASSUME WireInv
  PROVE  FieldsKeepApart
<1> DEFINE got == received.message
           whole == wire = WireText(sent) /\ received.len = Len(wire)
<1> SUFFICES ASSUME received # NotYet, \A f \in Heads : "quote" \notin ToSet(sent[f])
             PROVE  /\ \A f \in Heads : got[f] = sent[f] \/ (got[f] = <<>> /\ ~whole)
                    /\ \/ got.corr = sent.corr
                       \/ ~whole /\ (IsPrefix(got.corr, sent.corr) \/ got.corr = <<"0">>)
                    /\ SafeBody(sent.body) => IsPrefix(got.body, sent.body)
                    /\ whole /\ Len(sent.body) < BodySize - 1 => (got.body = sent.body <=> SafeBody(sent.body))
  BY Zenon DEF FieldsKeepApart
<1>1. sent \in Messages /\ IsSeq(wire) /\ Continues(WireText(sent), wire)
  BY DEF WireInv
<1>2. PICK len \in Nat : received = [len |-> len, message |-> Decoded(wire, len)]
  BY DEF WireInv
<1>3. received.len = len /\ got = Decoded(wire, len)
  BY <1>2
<1>4. /\ got.type = extract_str(wire, len, "type") /\ got.from = extract_str(wire, len, "from")
      /\ got.to = extract_str(wire, len, "to") /\ got.topic = extract_str(wire, len, "topic")
      /\ got.corr = extract_u64(wire, len, "corr") /\ got.body = extract_body(wire, len)
  BY <1>3 DEF Decoded
<1>5. \A f \in Heads : got[f] = extract_str(wire, len, f)
  BY <1>4 DEF Heads
<1>6. Plain(sent)
  <2>1. FieldTexts(sent)
    BY <1>1, MessageTexts
  <2>2. ASSUME NEW f \in Heads, NEW i \in 1 .. Len(sent[f]) PROVE sent[f][i] # "quote"
    <3>1. IsSeq(sent[f])
      BY <2>1, QuotedIn
    <3>2. i \in DOMAIN sent[f]
      BY <3>1, SeqFacts
    <3> QED BY <3>2 DEF ToSet
  <2> QED BY <1>1, <2>1, <2>2, MessageTexts DEF Plain, NoQuotes
<1>7. whole \in BOOLEAN /\ (whole <=> wire = WireText(sent) /\ len = Len(wire))
  BY <1>3
<1>8. /\ HeadSize \in Nat \ {0} /\ BodySize \in Nat \ {0}
      /\ \A f \in Heads : Len(sent[f]) < HeadSize
  BY <1>1, MessageTexts
<1> HIDE DEF whole, got
<1>9. /\ \A f \in Heads : extract_str(wire, len, f) = sent[f] \/ (extract_str(wire, len, f) = <<>> /\ ~whole)
      /\ \/ extract_u64(wire, len, "corr") = sent.corr
         \/ ~whole /\ (IsPrefix(extract_u64(wire, len, "corr"), sent.corr)
                       \/ extract_u64(wire, len, "corr") = <<"0">>)
      /\ SafeBody(sent.body) => IsPrefix(extract_body(wire, len), sent.body)
      /\ whole /\ Len(sent.body) < BodySize - 1 => (extract_body(wire, len) = sent.body <=> SafeBody(sent.body))
  BY <1>1, <1>6, <1>7, <1>8, PlainArrives
<1>10. \A f \in Heads : got[f] = sent[f] \/ (got[f] = <<>> /\ ~whole)
  BY <1>5, <1>9
<1> QED BY <1>4, <1>9, <1>10

\* Whatever the messages and the sizes of the buffers, hk_msg_decode takes no
\* field of what hk_msg_encode wrote for another.
THEOREM FieldsApart == WireSpec => []FieldsKeepApart
<1>1. WireInit => WireInv
  BY DEF WireInit, WireInv
<1>2. WireInv /\ [WireNext]_wireVars => WireInv'
  BY WireInvNext
<1>3. WireInv => FieldsKeepApart
  BY WireInvImplies
<1> QED BY <1>1, <1>2, <1>3, PTL DEF WireSpec
=============================================================================
