----------------------------- MODULE ConfigFile -----------------------------
(***************************************************************************)
(* Configuration files: the parser (config_parser.c), the entries it keeps *)
(* (config_storage.c) and the open-addressed index that finds duplicates   *)
(* while it reads (config_index.c).                                        *)
(*                                                                         *)
(* A line is what the parser asks of it, in the order of its questions:    *)
(*   opens    "none" when blank or a comment, "[" or "text"                *)
(*   long     longer than the limit on lines                               *)
(*   formed   a section's bracket closes behind a name, a text has a "="   *)
(*   fits     names and values within their limits                         *)
(*   valid    the name consists of the characters of names                 *)
(*   name, value  the section or the key, and the key's value              *)
(***************************************************************************)
EXTENDS Naturals, Sequences

CONSTANTS
  Lines,          \* lines of documents
  MaxLines,       \* bound: the lines of a document
  Unnamed,        \* the section before the first section line
  Hash(_, _),     \* of a section and a key
  FirstSlots,     \* the least capacity of an index, 8
  FirstEntries,   \* the first capacity of the entries, 8
  MaxEntries      \* the limit on entries

ConfigNames == {Unnamed} \cup {line.name : line \in Lines}

\* A name that is valid has a character at least.
ASSUME ConfigConstants ==
  /\ MaxLines \in Nat /\ MaxEntries \in Nat
  /\ FirstSlots \in Nat \ {0, 1} /\ FirstEntries \in Nat \ {0}
  /\ \A section, key \in ConfigNames : Hash(section, key) \in Nat
  /\ \A line \in Lines : line.opens = "[" /\ line.valid => line.name # Unnamed

VARIABLES
  builder,    \* [entries, capacity, slots]: slot -> number of an entry, or Vacant
  parse,      \* [pc, section, status]
  document,   \* the lines read so far; not in the code
  blocks      \* allocations that were not freed; not in the code

configVars == <<builder, parse, document, blocks>>

Vacant == 0
NoBuilder == [entries |-> <<>>, capacity |-> 0, slots |-> <<>>]

ConfigStart ==
  /\ builder = NoBuilder
  /\ parse = [pc |-> "idle", section |-> Unnamed, status |-> "none"]
  /\ document = <<>> /\ blocks = 0

-----------------------------------------------------------------------------
(* The index: slots in the order they are probed from a hash on.             *)

Slot(slots, hash, step) == ((hash + step) % Len(slots)) + 1
Steps(slots) == 0..(Len(slots) - 1)

\* The first vacant slot from the hash on ends every probe.
End(slots, hash) ==
  CHOOSE step \in Steps(slots) :
    /\ slots[Slot(slots, hash, step)] = Vacant
    /\ \A before \in 0..(step - 1) : slots[Slot(slots, hash, before)] # Vacant

\* aforc_config_index_contains, for entries with that section and key.
IndexContains(slots, entries, section, key) ==
  /\ slots # <<>>
  /\ LET hash == Hash(section, key)
     IN \E step \in 0..(End(slots, hash) - 1) :
          LET entry == entries[slots[Slot(slots, hash, step)]]
          IN entry.section = section /\ entry.key = key

\* aforc_config_index_insert.
IndexInsert(slots, entries, n) ==
  LET hash == Hash(entries[n].section, entries[n].key)
  IN [slots EXCEPT ![Slot(slots, hash, End(slots, hash))] = n]

\* Doubled from the least capacity on, until it is enough.
Doubled(least) ==
  LET capacity[n \in 0..least] ==
        IF n = 0 THEN FirstSlots
        ELSE IF capacity[n - 1] >= least THEN capacity[n - 1] ELSE 2 * capacity[n - 1]
  IN capacity[least]

IndexReserve_OldSlots(slots, entries) ==
  IF slots # <<>> /\ Len(entries) < Len(slots) \div 2 THEN slots
  ELSE LET capacity == Doubled(2 * (Len(entries) + 1))
       IN slots \o [i \in 1..(capacity - Len(slots)) |-> Vacant]

\* aforc_config_index_reserve: at half of its slots a new index takes the entries over.
IndexReserve(slots, entries) ==
  IF slots # <<>> /\ Len(entries) < Len(slots) \div 2 THEN slots
  ELSE LET taken[n \in 0..Len(entries)] ==
             IF n = 0 THEN [i \in 1..Doubled(2 * (Len(entries) + 1)) |-> Vacant]
             ELSE IndexInsert(taken[n - 1], entries, n)
       IN taken[Len(entries)]

-----------------------------------------------------------------------------
(* The parser.                                                               *)

Blocks(b) == (IF b.slots = <<>> THEN 0 ELSE 1) + (IF b.capacity = 0 THEN 0 ELSE 1)
             + (3 * Len(b.entries))
SectionBlock == IF parse.section = Unnamed THEN 0 ELSE 1

\* Input that is too long or holds a forbidden character is refused before any line.
Begin(status) ==
  /\ parse.pc = "idle"
  /\ parse' = [pc |-> IF status = "ok" THEN "lines" ELSE "end", section |-> Unnamed,
               status |-> status]
  /\ document' = <<>>
  /\ UNCHANGED <<builder, blocks>>

\* The label `fail': the section, the index and the entries are released.
FailWith(status, reached, held) ==
  /\ parse' = [pc |-> "end", section |-> Unnamed, status |-> status]
  /\ builder' = NoBuilder
  /\ blocks' = ((held - SectionBlock) - Blocks(reached))

Skip(line) == ~line.long /\ line.opens = "none" /\ UNCHANGED <<builder, parse, blocks>>

\* What is wrong with a line, in the order of the parser's questions.
Wrong(line) ==
  IF line.long THEN "limit"
  ELSE IF line.opens # "none" /\ ~line.formed THEN "format"
  ELSE IF line.opens # "none" /\ ~line.fits THEN "limit"
  ELSE IF line.opens # "none" /\ ~line.valid THEN "format"
  ELSE "ok"

WrongLine(line) ==
  /\ Wrong(line) # "ok"
  /\ FailWith(Wrong(line), builder, blocks)

\* The copy of the name replaces the one of the section before.
SectionLine(line, allocates) ==
  /\ Wrong(line) = "ok" /\ line.opens = "["
  /\ IF ~allocates THEN FailWith("memory", builder, blocks)
     ELSE /\ parse' = [parse EXCEPT !.section = line.name]
          /\ blocks' = (blocks + 1) - SectionBlock
          /\ UNCHANGED builder

EntriesCapacity ==
  LET next == IF builder.capacity = 0 THEN FirstEntries
              ELSE (builder.capacity + (builder.capacity \div 2)) + 1
  IN IF Len(builder.entries) < builder.capacity THEN builder.capacity
     ELSE IF next > MaxEntries THEN MaxEntries ELSE next

\* aforc_config_builder_append, with the n-th of its allocations failing, or none (0):
\* 1 the index, 2 the entries, 3 to 5 the three texts.
PairLine(line, failing) ==
  LET entry    == [section |-> parse.section, key |-> line.name, value |-> line.value]
      slots    == IndexReserve(builder.slots, builder.entries)
      capacity == EntriesCapacity
      indexed  == [builder EXCEPT !.slots = slots]
      grown    == [indexed EXCEPT !.capacity = capacity]
      Made(b)  == (blocks + Blocks(b)) - Blocks(builder)
  IN /\ Wrong(line) = "ok" /\ line.opens = "text"
     /\ IF IndexContains(builder.slots, builder.entries, entry.section, entry.key)
        THEN FailWith("exists", builder, blocks)
        ELSE IF Len(builder.entries) >= MaxEntries THEN FailWith("limit", builder, blocks)
        ELSE IF failing = 1 /\ slots # builder.slots THEN FailWith("memory", builder, blocks)
        ELSE IF failing = 2 /\ capacity # builder.capacity
        THEN FailWith("memory", indexed, Made(indexed))
        ELSE IF failing >= 3 THEN FailWith("memory", grown, Made(grown))
        ELSE /\ failing = 0
             /\ LET entries == Append(builder.entries, entry)
                IN builder' = [grown EXCEPT !.entries = entries,
                                            !.slots = IndexInsert(slots, entries, Len(entries))]
             /\ blocks' = Made(grown) + 3
             /\ UNCHANGED parse

ReadLine(line, failing) ==
  /\ parse.pc = "lines" /\ Len(document) < MaxLines
  /\ document' = Append(document, line)
  /\ Skip(line) \/ WrongLine(line) \/ SectionLine(line, failing = 0) \/ PairLine(line, failing)

\* The end of the input: the entries are handed over, section and index released.
EndOfInput ==
  /\ parse.pc = "lines"
  /\ parse' = [parse EXCEPT !.pc = "end", !.section = Unnamed]
  /\ builder' = [builder EXCEPT !.slots = <<>>]
  /\ blocks' = (blocks - SectionBlock) - (IF builder.slots = <<>> THEN 0 ELSE 1)
  /\ UNCHANGED document

\* aforc_config_release.
Release ==
  /\ parse.pc = "end"
  /\ builder' = NoBuilder
  /\ blocks' = blocks - Blocks(builder)
  /\ parse' = [pc |-> "idle", section |-> Unnamed, status |-> "none"]
  /\ document' = <<>>

ConfigNext ==
  \/ \E status \in {"ok", "limit", "format"} : Begin(status)
  \/ \E line \in Lines, failing \in 0..5 : ReadLine(line, failing)
  \/ EndOfInput
  \/ Release

\* aforc_config_get: the first entry decides.
Found(entries, section, key) ==
  {n \in DOMAIN entries : entries[n].section = section /\ entries[n].key = key}
ConfigGet(entries, section, key) ==
  LET found == Found(entries, section, key)
  IN IF found = {} THEN {}
     ELSE {entries[CHOOSE n \in found : \A k \in found : n <= k].value}

-----------------------------------------------------------------------------
\* What a document says: its pairs, each in the last section above it.
SectionsAbove(lines, i) == {j \in 1..i : lines[j].opens = "["}
SectionAt(lines, i) ==
  LET above == SectionsAbove(lines, i)
  IN IF above = {} THEN Unnamed
     ELSE lines[CHOOSE j \in above : \A k \in above : k <= j].name

PairAt(lines, i) ==
  [section |-> SectionAt(lines, i), key |-> lines[i].name, value |-> lines[i].value]

PairsOf(lines) ==
  LET pairs[n \in 0..Len(lines)] ==
        IF n = 0 THEN <<>>
        ELSE IF lines[n].opens = "text" THEN Append(pairs[n - 1], PairAt(lines, n))
        ELSE pairs[n - 1]
  IN pairs[Len(lines)]

Pairs == PairsOf(document)

\* Every section there can be with every key.
PossiblePairs ==
  {[section |-> s.name, key |-> k.name] :
     s \in {l \in Lines : l.opens = "["}, k \in {l \in Lines : l.opens = "text"}}

SameKey(a, b) == a.section = b.section /\ a.key = b.key

(* A document becomes its pairs, each once and in order, or nothing.  While  *)
(* it is read the index answers exactly for the entries, across rehashes and *)
(* collisions, and a vacant slot ends every probe; a document that repeats a *)
(* pair, at any distance, is refused; whatever fails, at any allocation,     *)
(* leaves no block behind, and success only those of the entries.            *)
ConfigIsExact ==
  /\ parse.pc = "lines" =>
       /\ builder.entries = Pairs
       /\ builder.slots # <<>> =>
            \E i \in DOMAIN builder.slots : builder.slots[i] = Vacant
       /\ \A pair \in PossiblePairs \cup {builder.entries[n] : n \in DOMAIN builder.entries} :
            IndexContains(builder.slots, builder.entries, pair.section, pair.key)
              <=> \E n \in DOMAIN builder.entries : SameKey(builder.entries[n], pair)
       /\ blocks = Blocks(builder) + SectionBlock
  /\ parse.pc = "end" =>
       /\ blocks = Blocks(builder)
       /\ IF parse.status # "ok" THEN builder = NoBuilder
          ELSE /\ builder.entries = Pairs
               /\ \A i, j \in DOMAIN Pairs : SameKey(Pairs[i], Pairs[j]) => i = j
               /\ \A i \in DOMAIN Pairs :
                    ConfigGet(builder.entries, Pairs[i].section, Pairs[i].key) = {Pairs[i].value}
  /\ parse.pc = "idle" => blocks = 0
=============================================================================
