-------------------------------- MODULE Md5 --------------------------------
(***************************************************************************)
(* The MD5 object of common/md5.cc, which digests what a trade request is  *)
(* signed over: how a message is counted, buffered, cut into blocks and    *)
(* padded, and what is left in the object for the next call.               *)
(*                                                                         *)
(* transform is abstract: _state is the sequence of the blocks that went   *)
(* into it, so two digests are equal when the same blocks were transformed *)
(* in the same order.  A block, a length field and a counter word are      *)
(* scaled down (64 bytes, 8 bytes and 2^32 in the code); a word of the     *)
(* length field is one token.                                              *)
(***************************************************************************)
EXTENDS Integers, Sequences

CONSTANTS
    BlockSize,    \* bytes of a block
    Word,         \* the number of values of a uint32
    ChunkSize,    \* BUFFER_SIZE: bytes of a file that are read at once
    MaxLength,    \* the longest message
    MaxDigests    \* how often digest is called for a message

\* The length of a message is a uint32: a longer one is counted wrongly, and the
\* index of the loop over its blocks wraps before it reaches the end.  Below that
\* it does not, since what is longer than the padding follows a reset, so that
\* the index goes up in whole blocks from 0.
ASSUME SizesAssumption ==
    /\ BlockSize \in Nat /\ BlockSize > 2 /\ ChunkSize \in Nat \ {0}
    /\ Word \in Nat \ {0} /\ Word % (8 * BlockSize) = 0
    /\ MaxLength \in Nat /\ MaxLength < Word /\ MaxDigests \in Nat

LengthSize == 2    \* the words of the length field

Byte(n)   == <<"byte", n>>
Count(n)  == <<"count", n>>
Pad       == <<"pad", 0>>
Zero      == <<"zero", 0>>
Unset     == <<"unset", 0>>

\* A message of n bytes that are all different.
Message(n) == [i \in 1 .. n |-> Byte(i)]

PADDING == [i \in 1 .. BlockSize |-> IF i = 1 THEN Pad ELSE Zero]

VARIABLES
    _state, _count, _buffer, _finished, _digest,
    msg,       \* the bytes the object was last given
    file,      \* they came from a file
    digests    \* how often digest has been called since

vars == <<_state, _count, _buffer, _finished, _digest, msg, file, digests>>

-----------------------------------------------------------------------------
(* The calculation, on what an object holds: its state, count and buffer *)

reset(o) == [state |-> <<>>, count |-> <<0, 0>>, buffer |-> o.buffer]

\* The number of buffered bytes.
Index(o) == (o.count[1] \div 8) % BlockSize

\* Faulty Counted: the low word wraps and nothing is carried.
CountedLow(count, length) == <<(count[1] + 8 * length) % Word, count[2]>>

\* _count is the number of bits, the low word first; of a length only the low
\* word is counted.
Counted(count, length) ==
    LET len  == length % Word
        bits == (8 * len) % Word
        low  == (count[1] + bits) % Word
    IN  <<low, (count[2] + (IF low < bits THEN 1 ELSE 0)
                + len \div (Word \div 8)) % Word>>

\* memcpy of input to the place behind the first index bytes.
Overwrite(buffer, index, input) ==
    [i \in 1 .. BlockSize |-> IF i \in index + 1 .. index + Len(input)
                              THEN input[i - index] ELSE buffer[i]]

transform(state, block) == Append(state, block)

\* Transform the n blocks of input that begin behind its first from bytes.
TransformAll(state, input, from, n) ==
    LET s[k \in 0 .. n] ==
            IF k = 0 THEN state
            ELSE transform(s[k - 1], SubSeq(input, from + (k - 1) * BlockSize + 1,
                                                   from + k * BlockSize))
    IN  s[n]

\* update(const byte*, size_t): fill up the buffer and transform it, transform
\* the whole blocks that follow, buffer the rest.
Update(o, input) ==
    LET index   == Index(o)
        partLen == BlockSize - index
        length  == Len(input)
        n       == (length - partLen) \div BlockSize
        i       == partLen + n * BlockSize
        full    == Overwrite(o.buffer, index, SubSeq(input, 1, partLen))
        count   == Counted(o.count, length)
    IN  IF length >= partLen
        THEN [state  |-> TransformAll(transform(o.state, full), input, partLen, n),
              count  |-> count,
              buffer |-> Overwrite(full, 0, SubSeq(input, i + 1, length))]
        ELSE [state  |-> o.state,
              count  |-> count,
              buffer |-> Overwrite(o.buffer, index, input)]

\* Faulty PadLen: a block that is full up to the length field is not padded.
PadLenTight(index) ==
    IF index <= BlockSize - LengthSize THEN BlockSize - LengthSize - index
                                       ELSE 2 * BlockSize - LengthSize - index

\* The bytes of the padding.
PadLen(index) ==
    IF index < BlockSize - LengthSize THEN BlockSize - LengthSize - index
                                      ELSE 2 * BlockSize - LengthSize - index

\* final: pad, append the length; the result is the state it leads to.
Padded(o) ==
    LET bits == <<Count(o.count[1]), Count(o.count[2])>>
    IN  Update(Update(o, SubSeq(PADDING, 1, PadLen(Index(o)))), bits)

\* Faulty Restored: the state is not restored.
RestoredCount(o, f) == [f EXCEPT !.count = o.count]

\* What final leaves in the object: state and count are restored.
Restored(o, f) == [state |-> o.state, count |-> o.count, buffer |-> f.buffer]

-----------------------------------------------------------------------------
(* The public operations *)

Object == [state |-> _state, count |-> _count, buffer |-> _buffer]

Becomes(o) == _state' = o.state /\ _count' = o.count /\ _buffer' = o.buffer

\* reset, also by a constructor.
Reset ==
    /\ Becomes(reset(Object)) /\ _finished' = FALSE
    /\ msg' = <<>> /\ file' = FALSE /\ digests' = 0
    /\ UNCHANGED _digest

\* update with a string or a buffer, also by a constructor.
UpdateWith(m) ==
    /\ Becomes(Update(reset(Object), m)) /\ _finished' = FALSE
    /\ msg' = m /\ file' = FALSE /\ digests' = 0
    /\ UNCHANGED _digest

\* The part of a file that is read after k chunks.
Chunk(m, k) ==
    SubSeq(m, k * ChunkSize + 1,
           IF (k + 1) * ChunkSize < Len(m) THEN (k + 1) * ChunkSize ELSE Len(m))

\* Each chunk that was read goes through update(const void*, size_t), which
\* resets.
ReadAll(o, m) ==
    LET last == (Len(m) - 1) \div ChunkSize
        read[k \in 0 .. last] ==
            Update(reset(IF k = 0 THEN o ELSE read[k - 1]), Chunk(m, k))
    IN  read[last]

\* update with a file that could be opened.  An empty one has no chunk.
UpdateFile(m) ==
    /\ \/ m = <<>> /\ UNCHANGED <<_state, _count, _buffer, _finished>>
       \/ m # <<>> /\ Becomes(ReadAll(Object, m)) /\ _finished' = FALSE
    /\ msg' = m /\ file' = TRUE /\ digests' = 0
    /\ UNCHANGED _digest

\* digest, also by toString.  final ends with an update, which clears
\* _finished again: it is never set when digest looks at it.
Digest ==
    /\ digests < MaxDigests /\ digests' = digests + 1
    /\ ~_finished
    /\ LET f == Padded(Object)
       IN  _digest' = f.state /\ _finished' = FALSE /\ Becomes(Restored(Object, f))
    /\ UNCHANGED <<msg, file>>

\* MD5(): _buffer and _digest are not initialised.
Init ==
    /\ _state = <<>> /\ _count = <<0, 0>> /\ _finished = FALSE
    /\ _buffer = [i \in 1 .. BlockSize |-> Unset] /\ _digest = <<>>
    /\ msg = <<>> /\ file = FALSE /\ digests = 0

Next ==
    \/ Reset \/ Digest
    \/ \E n \in 0 .. MaxLength : UpdateWith(Message(n)) \/ UpdateFile(Message(n))

Spec == Init /\ [][Next]_vars

-----------------------------------------------------------------------------
(* Properties *)

\* RFC 1321: the message, one bit and zeros up to the last LengthSize bytes of
\* a block, and the number of bits.
Zeros(m) == CHOOSE n \in 0 .. BlockSize - 1 :
                (Len(m) + 1 + n) % BlockSize = BlockSize - LengthSize

Reference(m) ==
    LET bits   == 8 * Len(m)
        padded == m \o <<Pad>> \o [i \in 1 .. Zeros(m) |-> Zero]
                    \o <<Count(bits % Word), Count((bits \div Word) % Word)>>
    IN  [k \in 1 .. Len(padded) \div BlockSize |->
            SubSeq(padded, (k - 1) * BlockSize + 1, k * BlockSize)]

\* What one call of update takes in, and a file of one chunk.
Whole == file => Len(msg) \in 1 .. ChunkSize

\* The digest is the MD5 of the message, whatever the object was used for
\* before: lengths around a block, the length field and the counter word.
DigestIsRight == digests = 1 /\ Whole => _digest = Reference(msg)

\* digest can be called again, as FuturesTrade does, if the padding of the
\* message did not overwrite buffered bytes, i.e. fits in the block they are in.
DigestIsStable ==
    [][digests > 0 /\ digests' > digests
            /\ Len(msg) % BlockSize < BlockSize - LengthSize
            /\ Whole
        => _digest' = _digest]_vars

\* The count and the buffer hold what they should between the calls.
TypeOK ==
    /\ _count \in (0 .. Word - 1) \X (0 .. Word - 1)
    /\ Len(_buffer) = BlockSize /\ _finished \in BOOLEAN
    /\ Whole => _count[1] + Word * _count[2] = 8 * Len(msg)
=============================================================================
