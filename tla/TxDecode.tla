------------------------------ MODULE TxDecode ------------------------------
(***************************************************************************)
(* tx.rs: what the analytics worker reads out of a sendTransaction body.   *)
(*                                                                         *)
(* The wire format is kept and its widths are parameters, so that TLC can  *)
(* walk through whole transactions: a byte has BITS bits, a u16 takes HALF *)
(* bytes, a u32 WORD and a u64 2 * WORD, a signature takes SIGNATURE bytes *)
(* and a key, a blockhash or a lifetime KEY.  Numbers are little-endian.   *)
(***************************************************************************)
EXTENDS Integers, Sequences, SequencesExt

CONSTANTS
    BITS, HALF, WORD, SIGNATURE, KEY,
    THIRD_MAX,                          \* largest third byte of a shortvec
    MAX_LEGACY_LEN, MAX_V1_LEN, MAX_BASE58_LEN, MAX_BASE64_LEN,
    COMPUTE_BUDGET_ID, BUILTIN_PROGRAM_IDS,
    MAX_COMPUTE_UNITS,
    DEFAULT_INSTRUCTION_COMPUTE_UNITS, DEFAULT_BUILTIN_COMPUTE_UNITS,
    MICRO                               \* micro-lamports per lamport

HIGH == 2 ^ (BITS - 1)      \* 0x80
BASE == 2 ^ BITS
V1_PREFIX == HIGH + 1

(* A signature count with the high bit set does not fit a legacy packet, so *)
(* V1_PREFIX cannot be taken for one.                                       *)
ASSUME TxDecodeAssumption ==
    /\ BITS \in Nat \ {0, 1} /\ HALF \in Nat \ {0} /\ WORD \in Nat \ {0}
    /\ HIGH * SIGNATURE > MAX_LEGACY_LEN

U32_MAX == BASE ^ WORD - 1
U64_MAX == BASE ^ (2 * WORD) - 1
None == -1      \* Option::None for a number

min(a, b) == IF a < b THEN a ELSE b
from_le_bytes(s) == FoldLeft(LAMBDA acc, i : acc + s[i] * BASE ^ (i - 1), 0,
                             [i \in 1..Len(s) |-> i])

-----------------------------------------------------------------------------
(* Cursor: a position, the value last read and the error that ended the     *)
(* parse.  As with `?', a failed cursor stays as it is.                      *)

Start == [pos |-> 0, val |-> 0, err |-> "none"]
Ok(c) == c.err = "none"
Fail(c, e) == IF Ok(c) THEN [c EXCEPT !.val = 0, !.err = e] ELSE c

skip(bytes, c, len) ==
    IF ~Ok(c) \/ c.pos + len > Len(bytes) THEN Fail(c, "Unparsed")
    ELSE [c EXCEPT !.pos = @ + len]

(* The bytes `take' returns, to be looked at once the skip succeeded. *)
Slice(bytes, c, len) == SubSeq(bytes, c.pos + 1, c.pos + len)

byte(bytes, c) ==
    LET next == skip(bytes, c, 1)
    IN  IF Ok(next) THEN [next EXCEPT !.val = bytes[next.pos]] ELSE next

number(bytes, c, len) ==
    LET next == skip(bytes, c, len)
    IN  IF Ok(next) THEN [next EXCEPT !.val = from_le_bytes(Slice(bytes, c, len))] ELSE next

(* Up to three bytes, all but the last with the high bit; a longer form     *)
(* than needed is refused.                                                  *)
shortvec(bytes, c) ==
    LET b(i) == bytes[c.pos + i]
        ends == {k \in 1..3 : /\ c.pos + k <= Len(bytes)
                              /\ b(k) < HIGH
                              /\ \A i \in 1..(k - 1) : b(i) >= HIGH}
        fits(k) == (k > 1 => b(k) # 0) /\ (k = 3 => b(k) <= THIRD_MAX)
    IN  IF Ok(c) /\ \E k \in ends : fits(k)
        THEN LET k == CHOOSE k \in ends : fits(k)
                 digit(i) == (b(i) % HIGH) * HIGH ^ (i - 1)
             IN  [c EXCEPT !.pos = @ + k,
                           !.val = FoldLeft(LAMBDA acc, i : acc + digit(i), 0,
                                            [i \in 1..k |-> i])]
        ELSE Fail(c, "Unparsed")

Error(e) == [result |-> e]
Info(limit, defaulted, price, fee, instructions, signatures, versioned) ==
    [result |-> "parsed", cu_limit |-> limit, cu_limit_defaulted |-> defaulted,
     cu_price_micro_lamports |-> price, requested_priority_fee_lamports |-> fee,
     num_instructions |-> instructions, num_signatures |-> signatures,
     is_versioned |-> versioned]

-----------------------------------------------------------------------------
(* Legacy and v0: the budget is in the ComputeBudget instructions. *)

(* s is the loop's state: the cursor and the budget read so far. *)
compute_budget(s, data) ==
    CASE data = <<>> -> [s EXCEPT !.cursor = Fail(@, "InvalidBudget")]
      [] data # <<>> /\ data[1] = 2 ->
            IF Len(data) < 1 + WORD \/ s.limit # None
            THEN [s EXCEPT !.cursor = Fail(@, "InvalidBudget")]
            ELSE [s EXCEPT !.limit = from_le_bytes(SubSeq(data, 2, 1 + WORD))]
      [] data # <<>> /\ data[1] = 3 ->
            IF Len(data) < 1 + 2 * WORD \/ s.price # None
            THEN [s EXCEPT !.cursor = Fail(@, "InvalidBudget")]
            ELSE [s EXCEPT !.price = from_le_bytes(SubSeq(data, 2, 1 + 2 * WORD))]
      [] OTHER -> s

instruction(bytes, keys, key_count, s) ==
    LET program == byte(bytes, s.cursor)
        index == IF program.val >= key_count THEN Fail(program, "Unparsed") ELSE program
        accounts == shortvec(bytes, index)
        data_len == shortvec(bytes, skip(bytes, accounts, accounts.val))
        end == skip(bytes, data_len, data_len.val)
        key == SubSeq(keys, program.val * KEY + 1, (program.val + 1) * KEY)
        units == IF key \in BUILTIN_PROGRAM_IDS THEN DEFAULT_BUILTIN_COMPUTE_UNITS
                                                ELSE DEFAULT_INSTRUCTION_COMPUTE_UNITS
        read == [s EXCEPT !.cursor = end, !.default = min(@ + units, U64_MAX)]
    IN  IF ~Ok(end) THEN [s EXCEPT !.cursor = end]
        ELSE IF key # COMPUTE_BUDGET_ID THEN read
        ELSE compute_budget(read, Slice(bytes, data_len, data_len.val))

(* Mutant: the fee is rounded down. *)
fee_rounded_down(limit, price) == min((limit * price) \div MICRO, U64_MAX)

priority_fee(limit, price) == min((limit * price + MICRO - 1) \div MICRO, U64_MAX)

decode_legacy(bytes) ==
    LET signatures == shortvec(bytes, Start)
        first == byte(bytes, skip(bytes, signatures, signatures.val * SIGNATURE))
        versioned == first.val >= HIGH
        header == IF versioned /\ first.val # HIGH THEN Fail(first, "Unsupported")
                  ELSE skip(bytes, first, IF versioned THEN 3 ELSE 2)
        key_count == shortvec(bytes, header)
        keys == Slice(bytes, key_count, key_count.val * KEY)
        blockhash == skip(bytes, skip(bytes, key_count, key_count.val * KEY), KEY)
        count == shortvec(bytes, blockhash)
        loop == FoldLeft(LAMBDA s, i : IF Ok(s.cursor)
                                       THEN instruction(bytes, keys, key_count.val, s) ELSE s,
                         [cursor |-> count, limit |-> None, price |-> None, default |-> 0],
                         [i \in 1..count.val |-> i])
        limit == IF loop.limit # None THEN loop.limit ELSE min(loop.default, MAX_COMPUTE_UNITS)
    IN  IF ~Ok(loop.cursor) THEN Error(loop.cursor.err)
        ELSE Info(limit, loop.limit = None, loop.price,
                  IF loop.price = None THEN None
                  ELSE priority_fee(min(limit, MAX_COMPUTE_UNITS), loop.price),
                  count.val, signatures.val, versioned)

-----------------------------------------------------------------------------
(* v1: the budget is in the config values, one word for each bit of the     *)
(* mask: bits 0 and 1 the fee, bit 2 the limit.                             *)

(* Mutant: something after the signatures is let through. *)
signatures_fit(bytes, c, n) == Len(bytes) - c.pos >= n * SIGNATURE

signatures_remain(bytes, c, n) == Len(bytes) - c.pos = n * SIGNATURE

decode_v1(bytes) ==
    LET signatures == byte(bytes, skip(bytes, Start, 1))
        mask == number(bytes, skip(bytes, signatures, 2), WORD)
        count == byte(bytes, skip(bytes, mask, KEY))
        addresses == byte(bytes, count)
        is_set(bit) == (mask.val \div 2 ^ bit) % 2 = 1
        bits == SelectSeq([i \in 1..BITS * WORD |-> i - 1], is_set)
        values == FoldLeft(LAMBDA s, bit :
                        LET c == number(bytes, s.cursor, WORD)
                        IN  [s EXCEPT !.cursor = c, !.of[bit] = c.val],
                    [cursor |-> skip(bytes, addresses, addresses.val * KEY),
                     of |-> [bit \in 0..(BITS * WORD - 1) |-> None]],
                    bits)
        half_fee == is_set(0) # is_set(1)
        fee == IF is_set(0) THEN values.of[1] * (U32_MAX + 1) + values.of[0] ELSE None
        budget == IF half_fee THEN Fail(values.cursor, "InvalidBudget") ELSE values.cursor
        headers == FoldLeft(LAMBDA s, i :
                        LET program == byte(bytes, s.cursor)
                            index == IF program.val >= addresses.val
                                     THEN Fail(program, "Unparsed") ELSE program
                            accounts == byte(bytes, index)
                            data_len == number(bytes, accounts, HALF)
                        IN  [cursor |-> data_len,
                             payload |-> s.payload + accounts.val + data_len.val],
                    [cursor |-> budget, payload |-> 0],
                    [i \in 1..count.val |-> i])
        end == skip(bytes, headers.cursor, headers.payload)
        limit == IF is_set(2) THEN values.of[2] ELSE 0
        effective == min(limit, MAX_COMPUTE_UNITS)
        price == IF effective = 0 THEN 0 ELSE min((fee * MICRO) \div effective, U64_MAX)
    IN  IF ~Ok(end) THEN Error(end.err)
        ELSE IF ~signatures_remain(bytes, end, signatures.val) THEN Error("Unparsed")
        ELSE Info(limit, ~is_set(2), IF fee = None THEN None ELSE price, fee,
                  count.val, signatures.val, TRUE)

decode_transaction(bytes) ==
    IF bytes # <<>> /\ bytes[1] = V1_PREFIX THEN decode_v1(bytes)
    ELSE IF bytes # <<>> /\ bytes[1] > V1_PREFIX THEN Error("Unsupported")
    ELSE decode_legacy(bytes)

(* The JSON envelope: `chars' is the length of the encoded string, `bytes'  *)
(* what it decodes to, if it does.  No `encoding' means base58.             *)
decode_request(request) ==
    LET bytes == request.bytes
        max_len == IF bytes # <<>> /\ bytes[1] = V1_PREFIX THEN MAX_V1_LEN ELSE MAX_LEGACY_LEN
    IN  IF \/ ~request.has_params \/ request.chars > MAX_BASE64_LEN
           \/ request.encoding = "base58" /\ request.chars > MAX_BASE58_LEN
        THEN Error("Unparsed")
        ELSE IF request.encoding \notin {"base58", "base64"} THEN Error("Unsupported")
        ELSE IF ~request.decodes \/ Len(bytes) > max_len THEN Error("Unparsed")
        ELSE decode_transaction(bytes)
=============================================================================
