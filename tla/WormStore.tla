----------------------------- MODULE WormStore -----------------------------
(***************************************************************************)
(* worm_storage.c: a ledger in memory, the file it is saved in, and the    *)
(* chain hashes that are to show it whole.  The application that owns the  *)
(* ledger may crash at any point of a save, the disk may be full, and any  *)
(* allocation may fail, when the ledger is written and when it is read.    *)
(* A hash is a set of bits, so that the XOR of hk_worm_compute_chain_hash  *)
(* is the symmetric difference it is.                                      *)
(***************************************************************************)
EXTENDS Integers, SequencesExt

CONSTANTS
  ContentHashes,   \* hashes of payloads: sets of bits, none of them all zero
  MaxRead,         \* 1024, the most entries hk_worm_read_file returns
  MaxAppends       \* bound of the model: entries ever appended

ASSUME WormAssumption ==
  /\ {} \notin ContentHashes
  /\ MaxRead \in Nat \ {0} /\ MaxAppends \in Nat

VARIABLES
  ledger,    \* the application's hk_worm_entry array
  file,      \* the whole entries on file; torn: part of one more follows them
  writing,   \* inside hk_worm_write_file
  buffer,    \* the entries given to fwrite in this save
  log,       \* history: the entries ever appended, as they were appended
  saved      \* history: the ledger of the last save that opened the file

vars == <<ledger, file, writing, buffer, log, saved>>

Zero == {}

\* hk_worm_compute_chain_hash: an XOR where the header has SHA-256.
hk_worm_compute_chain_hash(prev, content) == (prev \ content) \cup (content \ prev)

\* Mutant: the running hash stays at zero.
hk_worm_verify_chain_Standing(es) ==
  \A i \in DOMAIN es :
    es[i].chain_hash = hk_worm_compute_chain_hash(Zero, es[i].content_hash)

\* The running hash is the chain hash stored in the entry before.
hk_worm_verify_chain(es) ==
  \A i \in DOMAIN es :
    LET prev == IF i = 1 THEN Zero ELSE es[i - 1].chain_hash
    IN  es[i].chain_hash = hk_worm_compute_chain_hash(prev, es[i].content_hash)

\* What an entry has of its event type, payload and metadata: "all" of them, one
\* of them "long"er than its length field can tell, or only "some" of them.
PartsLeft == {"all", "long", "some"}

\* What becomes of an entry that is read: all its allocations succeed; one for
\* its event type, payload or metadata fails; or the one for the entry does.
Fates == {"whole", "stripped", "skipped"}

\* An entry after hk_worm_entry_serialize and hk_worm_entry_deserialize: the
\* format has no place for the sequence and the chain hash, which stay zero; a
\* part that is too long comes back cut, one that finds no memory not at all.
Reloaded(e, fate) ==
  [e EXCEPT !.sequence = 0, !.chain_hash = Zero,
            !.parts = IF @ = "all" /\ fate = "whole" THEN "all" ELSE "some"]

\* Mutant: no end to the array.
hk_worm_read_file_NoCap(f, fate) ==
  [i \in DOMAIN f.entries |-> Reloaded(f.entries[i], fate[i])]

\* Mutant: count++ outside "if (e)" leaves a blank entry where one was skipped.
hk_worm_read_file_Gaps(f, fate) ==
  LET Blank(e) == [Reloaded(e, "stripped") EXCEPT !.id = 0]
  IN  [i \in {j \in DOMAIN f.entries : j <= MaxRead} |->
         IF fate[i] = "skipped" THEN Blank(f.entries[i]) ELSE Reloaded(f.entries[i], fate[i])]

\* The whole entries of the file that were not skipped, the first MaxRead of
\* them.  A read that is cut short skips all that follow.
hk_worm_read_file(f, fate) ==
  LET Kept[n \in 0 .. Len(f.entries)] ==
        IF n = 0 THEN <<>>
        ELSE IF Len(Kept[n - 1]) = MaxRead \/ fate[n] = "skipped" THEN Kept[n - 1]
        ELSE Append(Kept[n - 1], Reloaded(f.entries[n], fate[n]))
  IN  Kept[Len(f.entries)]

----------------------------------------------------------------------------
Init ==
  /\ ledger = <<>>
  /\ file = [entries |-> <<>>, torn |-> FALSE]
  /\ writing = FALSE
  /\ buffer = <<>>
  /\ log = <<>>
  /\ saved = <<>>

\* The application adds an entry and fills it in as worm.h describes its fields.
\* The lengths that go into its header add up to less than 2^32 - 152: above
\* that hk_worm_entry_serialize computes the size of its buffer modulo 2^32.
AppendEntry(content, parts) ==
  /\ ~writing /\ Len(log) < MaxAppends
  /\ LET prev == IF ledger = <<>> THEN Zero ELSE Last(ledger).chain_hash
         n    == Len(log) + 1
         e    == [id |-> n, sequence |-> n, content_hash |-> content, prev_hash |-> prev,
                  chain_hash |-> hk_worm_compute_chain_hash(prev, content), parts |-> parts]
     IN  ledger' = Append(ledger, e) /\ log' = Append(log, e)
  /\ UNCHANGED <<file, writing, buffer, saved>>

\* Mutant: fopen(path, "ab").
WriteOpen_Appends ==
  /\ ~writing /\ ledger # <<>>
  /\ writing' = TRUE /\ buffer' = <<>> /\ saved' = ledger
  /\ UNCHANGED <<ledger, file, log>>

\* hk_worm_write_file refuses an empty ledger; fopen(path, "wb") empties the
\* file before anything is written.
WriteOpen ==
  /\ ~writing /\ ledger # <<>>
  /\ file' = [entries |-> <<>>, torn |-> FALSE]
  /\ writing' = TRUE /\ buffer' = <<>> /\ saved' = ledger
  /\ UNCHANGED <<ledger, log>>

\* fwrite of the next entry, to the stream.
WriteEntry ==
  /\ writing /\ Len(buffer) < Len(ledger)
  /\ buffer' = Append(buffer, ledger[Len(buffer) + 1])
  /\ UNCHANGED <<ledger, file, writing, log, saved>>

\* The stream reaches the disk up to any point, which may be inside an entry.
Flush ==
  \E n \in 0 .. Len(buffer), torn \in BOOLEAN :
    /\ torn => n < Len(buffer)
    /\ file' = [entries |-> file.entries \o SubSeq(buffer, 1, n), torn |-> torn]

\* A short fwrite or a failed allocation: fclose, and the function returns 0.
WriteFails ==
  /\ writing /\ Len(buffer) < Len(ledger)
  /\ Flush
  /\ writing' = FALSE
  /\ UNCHANGED <<ledger, buffer, log, saved>>

\* Every entry was taken: the function returns 1, whatever fclose had to say of
\* the bytes still in the stream.
WriteDone ==
  /\ writing /\ Len(buffer) = Len(ledger)
  /\ Flush
  /\ writing' = FALSE
  /\ UNCHANGED <<ledger, buffer, log, saved>>

\* The process dies and starts again with nothing in memory.
Crash ==
  /\ ledger' = <<>>
  /\ IF writing THEN Flush ELSE UNCHANGED file
  /\ writing' = FALSE /\ buffer' = <<>>
  /\ UNCHANGED <<log, saved>>

\* The application takes what hk_worm_read_file returns for its ledger, and keeps
\* the one it has when that is NULL.  (A failed allocation of full_buf ends the
\* process, as Crash does.)
Read ==
  /\ ~writing
  /\ \E fate \in [DOMAIN file.entries -> Fates] : ledger' = hk_worm_read_file(file, fate)
  /\ UNCHANGED <<file, writing, buffer, log, saved>>

Next ==
  \/ \E c \in ContentHashes, p \in {"all", "long"} : AppendEntry(c, p)
  \/ WriteOpen \/ WriteEntry \/ WriteFails \/ WriteDone
  \/ Crash \/ Read

Spec == Init /\ [][Next]_vars

----------------------------------------------------------------------------
IsReloaded(e) == e.sequence = 0

Ids(es) == [i \in DOMAIN es |-> es[i].id]

\* The reloaded entries fit the array hk_worm_read_file allocates.
TypeOK ==
  /\ \A i \in DOMAIN ledger :
       /\ ledger[i].content_hash \in ContentHashes
       /\ ledger[i].prev_hash \subseteq UNION ContentHashes
       /\ ledger[i].chain_hash \subseteq UNION ContentHashes
       /\ ledger[i].parts \in PartsLeft
       /\ IsReloaded(ledger[i]) => i <= MaxRead
  /\ file.torn \in BOOLEAN /\ writing \in BOOLEAN
  /\ Len(log) \in 0 .. MaxAppends
  /\ Len(buffer) <= Len(ledger) \/ ~writing

\* e is the entry x, with the same content hash and the same link, and with the
\* parts of x or only some of them.
IsCopy(e, x) ==
  /\ e.id = x.id /\ e.content_hash = x.content_hash /\ e.prev_hash = x.prev_hash
  /\ e.parts \in {x.parts, "some"}

\* es are entries of xs, in their order and none twice; ids grow along xs.
ArePicked(es, xs) ==
  /\ \A i, j \in DOMAIN es : i < j => es[i].id < es[j].id
  /\ \A i \in DOMAIN es : \E j \in DOMAIN xs : IsCopy(es[i], xs[j])

\* Whatever crashed or failed, and however often the file was written over:
\* a read gives entries of the last ledger saved and of no older one, in their
\* order and none twice, with the hash and the link they were saved with.  If no
\* allocation fails it gives the first of them up to the cap, each with all its
\* parts unless one was too long or missing before; and a file that ends inside
\* an entry has lost at least that one of the ledger saved.
ReadsWhatWasSaved ==
  ~writing =>
    /\ \A fate \in [DOMAIN file.entries -> Fates] :
         ArePicked(hk_worm_read_file(file, fate), saved)
    /\ LET r == hk_worm_read_file(file, [i \in DOMAIN file.entries |-> "whole"]) IN
       /\ Len(r) = IF Len(file.entries) <= MaxRead THEN Len(file.entries) ELSE MaxRead
       /\ \A i \in DOMAIN r : r[i] = Reloaded(saved[i], "whole")
    /\ file.torn => Len(file.entries) < Len(saved)

\* However many saves, crashes and failed reads an entry went through, the ledger
\* holds entries that were appended, in the order of their appending and each at
\* most once, with the content hash and the link they got then.
EntriesAreGenuine == ArePicked(ledger, log)

\* hk_worm_verify_chain passes a ledger exactly when none of it was read from
\* a file: entries appended to a reloaded ledger do not mend it.
VerifyTells ==
  hk_worm_verify_chain(ledger) <=> \A i \in DOMAIN ledger : ~IsReloaded(ledger[i])

\* worm.h:19, "Replay by recomputing all chain hashes verifies integrity": a
\* ledger just read from the file that holds it verifies.
VerifiesAfterReload ==
  (\A i \in DOMAIN ledger : IsReloaded(ledger[i])) => hk_worm_verify_chain(ledger)

\* worm.h:107, "@return 1 on success" of hk_worm_write_file: where it returns 1
\* the ledger is on file.
SuccessMeansSaved == [][WriteDone => Ids(file'.entries) = Ids(ledger)]_vars
============================================================================
