---------------------------- MODULE CooldownTable ----------------------------
(***************************************************************************)
(* The detector's cooldown table, src/src/anomaly_detector.c: the array    *)
(* anomaly_state_t.cooldowns up to cooldown_count, as a sequence of        *)
(* entries.  cooldown_is_active answers and may delete; the two effects    *)
(* are two operators here.                                                 *)
(***************************************************************************)
EXTENDS Integers, Sequences

CONSTANT TableSize      \* ANOMALY_COOLDOWN_TABLE_SIZE, 64 in the code

ASSUME TableSizeAssumption == TableSize \in Nat \ {0}

Entry(key, at) == [scope_key |-> key, last_trigger_ns |-> at]

\* cooldown_find returns the first entry of the key.
Has(table, key) == \E i \in 1..Len(table) : table[i].scope_key = key

Find(table, key) ==
    CHOOSE i \in 1..Len(table) :
        /\ table[i].scope_key = key
        /\ \A j \in 1..(i - 1) : table[j].scope_key # key

\* A window not over yet: an entry from the future counts as fresh.
Fresh(entry, now, window) ==
    now <= entry.last_trigger_ns \/ now - entry.last_trigger_ns < window

\* cooldown_is_active: what it returns ...
IsActive(table, key, now, window) ==
    Has(table, key) /\ Fresh(table[Find(table, key)], now, window)

\* Mutants: the last entry goes instead; the count is not lowered.
DropLast(table, i) == SubSeq(table, 1, Len(table) - 1)
SwapInPlace(table, i) == [table EXCEPT ![i] = table[Len(table)]]

\* ... and what it leaves: an expired entry is overwritten with the last one
\* and the table is one shorter.
SwapOut(table, i) ==
    [j \in 1..(Len(table) - 1) |->
        IF j = i THEN table[Len(table)] ELSE table[j]]

AfterConsult(table, key, now, window) ==
    IF Has(table, key) /\ ~Fresh(table[Find(table, key)], now, window)
    THEN SwapOut(table, Find(table, key))
    ELSE table

\* Mutant: the entry longest in the array goes.
EvictSlotZero(table) == 1

\* The first of the entries with the oldest timestamp.
Oldest(table) ==
    CHOOSE i \in 1..Len(table) :
        /\ \A j \in 1..Len(table) :
              table[i].last_trigger_ns <= table[j].last_trigger_ns
        /\ \A j \in 1..(i - 1) :
              table[i].last_trigger_ns < table[j].last_trigger_ns

\* Mutant: a full table is not looked for.
RecordUnbounded(table, key, at) ==
    IF Has(table, key)
    THEN [table EXCEPT ![Find(table, key)].last_trigger_ns = at]
    ELSE Append(table, Entry(key, at))

\* cooldown_record: refresh the key's entry, else evict the oldest when the
\* table is full, else append.
Record(table, key, at) ==
    IF Has(table, key)
    THEN [table EXCEPT ![Find(table, key)].last_trigger_ns = at]
    ELSE IF Len(table) >= TableSize
    THEN [table EXCEPT ![Oldest(table)] = Entry(key, at)]
    ELSE Append(table, Entry(key, at))
==============================================================================
