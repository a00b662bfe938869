------------------------------- MODULE Buffers -------------------------------
(* Buffers (buffer.c) under the operators of the language (bufferop.c),      *)
(* which do not clear the variable that is about to be assigned: octets in a *)
(* block that is reallocated to the length needed.                           *)
EXTENDS Integers, FiniteSets, SequencesExt

CONSTANTS Octets,
          BufferVars,
          MaxBuffers,       \* bound: buffers alive at a time
          MaxOctets,        \* bound: length of a buffer
          WrongBuffers      \* with the operations that the code gets wrong

ASSUME BuffersAssumption ==
    /\ Octets \subseteq 1 .. 255 /\ IsFiniteSet(BufferVars) /\ "top" \notin BufferVars
    /\ {MaxBuffers, MaxOctets} \subseteq Nat \ {0} /\ WrongBuffers \in BOOLEAN

VARIABLES buffers,  \* the buffer at each address
          holders,  \* the buffer in each variable and on the stack, or 0
          octets    \* history: what an immutable buffer would hold there

bufferVars == <<buffers, holders, octets>>

Holders == BufferVars \cup {"top"}
BufferRefs == 1 .. MaxBuffers
NoBuffer == [refs |-> 0, len |-> 0, s |-> <<>>]

buffer_new(s) == [refs |-> 1, len |-> Len(s), s |-> s]
Contents(buf) == SubSeq(buf.s, 1, buf.len)
Resized(s, len) ==      \* BUFREALLOC; what is new will be written
    [i \in 1 .. len |-> IF i \in DOMAIN s THEN s[i] ELSE 0]

buffer_dup(heap, r) == IF r = 0 THEN heap ELSE [heap EXCEPT ![r].refs = @ + 1]
buffer_discard(heap, r) ==
    IF r = 0 THEN heap
    ELSE IF heap[r].refs = 1 THEN [heap EXCEPT ![r] = NoBuffer]
    ELSE [heap EXCEPT ![r].refs = @ - 1]

NextBuffer(heap) == Min({r \in BufferRefs : heap[r] = NoBuffer})
Split(heap, r, s) ==    \* a buffer of one's own with these octets
    [ref |-> NextBuffer(heap),
     heap |-> [heap EXCEPT ![r].refs = @ - 1, ![NextBuffer(heap)] = buffer_new(s)]]
Bug_prepare_buffer(heap, r) == [heap |-> heap, ref |-> r]
prepare_buffer(heap, r) ==
    IF heap[r].refs = 1 THEN [heap |-> heap, ref |-> r]
    ELSE Split(heap, r, Contents(heap[r]))

buffer_append(heap, r, other) ==
    LET more == Contents(heap[other])
        p == prepare_buffer(heap, r)
    IN  IF more = <<>> THEN [heap |-> heap, ref |-> r]
        ELSE [p EXCEPT !.heap[p.ref].s = Contents(p.heap[p.ref]) \o more,
                       !.heap[p.ref].len = @ + Len(more)]
buffer_replace(heap, r, pos, c) ==
    LET p == prepare_buffer(heap, r) IN
    IF heap[r].s[pos + 1] = c THEN [heap |-> heap, ref |-> r]
    ELSE [p EXCEPT !.heap[p.ref].s[pos + 1] = c]
buffer_add(heap, r, c) ==
    LET p == prepare_buffer(heap, r) IN
    [p EXCEPT !.heap[p.ref].s = Append(Contents(p.heap[p.ref]), c), !.heap[p.ref].len = @ + 1]
buffer_truncate(heap, r, len) ==
    LET p == prepare_buffer(heap, r)
        rest == SubSeq(heap[r].s, 1 - len, heap[r].len)
    IN  IF len >= 0
        THEN IF len = heap[r].len THEN [heap |-> heap, ref |-> r]
             ELSE [p EXCEPT !.heap[p.ref].s = Resized(@, len), !.heap[p.ref].len = len]
        ELSE IF heap[r].refs = 1    \* moved to the front; the length stays
        THEN [heap |-> [heap EXCEPT ![r].s = rest \o SubSeq(@, Len(rest) + 1, Len(@))], ref |-> r]
        ELSE Split(heap, r, rest)
------------------------------------------------------------------------------
BufferInit ==
    /\ buffers = [r \in BufferRefs |-> NoBuffer]
    /\ holders = [h \in Holders |-> 0]
    /\ octets = [h \in Holders |-> <<>>]

TopBuffer == holders["top"]
Bytes == octets["top"]
HasBuffer == TopBuffer # 0
Becomes(p, s) ==    \* the operator's result replaces its first argument
    /\ buffers' = p.heap
    /\ holders' = [holders EXCEPT !["top"] = p.ref]
    /\ octets' = [octets EXCEPT !["top"] = s]
Spare == \E r \in BufferRefs : buffers[r] = NoBuffer

OpBuffer ==     \* `[...]
    /\ ~HasBuffer /\ Spare
    /\ \E n \in 0 .. 1 : \E s \in [1 .. n -> Octets] :
        Becomes([ref |-> NextBuffer(buffers),
                 heap |-> [buffers EXCEPT ![NextBuffer(buffers)] = buffer_new(s)]], s)

GetBuffer ==
    /\ ~HasBuffer
    /\ \E v \in BufferVars : Becomes([ref |-> holders[v], heap |-> buffer_dup(buffers, holders[v])],
                                     octets[v])

SetBuffer ==
    /\ HasBuffer
    /\ \E v \in BufferVars :
        /\ buffers' = buffer_dup(buffer_discard(buffers, holders[v]), TopBuffer)
        /\ holders' = [holders EXCEPT ![v] = TopBuffer]
        /\ octets' = [octets EXCEPT ![v] = Bytes]

PopBuffer == HasBuffer /\ Becomes([ref |-> 0, heap |-> buffer_discard(buffers, TopBuffer)], <<>>)

OpBufferAppend ==
    /\ HasBuffer /\ Spare
    /\ \E v \in BufferVars :
        /\ holders[v] # 0 /\ Len(Bytes) + Len(octets[v]) <= MaxOctets
        /\ LET p == buffer_append(buffer_dup(buffers, holders[v]), TopBuffer, holders[v])
           IN  Becomes([p EXCEPT !.heap = buffer_discard(@, holders[v])], Bytes \o octets[v])

OpBufferAdd ==
    /\ HasBuffer /\ Spare /\ Len(Bytes) < MaxOctets
    /\ \E c \in Octets : Becomes(buffer_add(buffers, TopBuffer, c), Append(Bytes, c))

(* The operator passes on the position, args[1], as the octet.               *)
OpBufferReplace ==
    /\ HasBuffer /\ Spare
    /\ \E pos \in DOMAIN Bytes, c \in Octets :
        /\ WrongBuffers \/ c = pos
        /\ Becomes(buffer_replace(buffers, TopBuffer, pos - 1, pos), [Bytes EXCEPT ![pos] = c])

OpBufferTruncate ==
    /\ HasBuffer /\ Spare
    /\ \E pos \in 1 - Len(Bytes) .. Len(Bytes) - 1 :
        /\ WrongBuffers \/ pos >= 0 \/ buffers[TopBuffer].refs > 1
        /\ Becomes(buffer_truncate(buffers, TopBuffer, pos),
                   IF pos >= 0 THEN SubSeq(Bytes, 1, pos) ELSE SubSeq(Bytes, 1 - pos, Len(Bytes)))

BufferNext == OpBuffer \/ GetBuffer \/ SetBuffer \/ PopBuffer \/ OpBufferAppend
              \/ OpBufferAdd \/ OpBufferReplace \/ OpBufferTruncate
BufferSpec == BufferInit /\ [][BufferNext]_bufferVars
------------------------------------------------------------------------------
(* Whatever buffers share, every variable holds the octets it would hold if  *)
(* buffers were copied whenever they are assigned or passed, and a buffer    *)
(* lives as long as somebody refers to it.                                   *)
BuffersKept ==
    /\ \A h \in Holders : holders[h] # 0 => Contents(buffers[holders[h]]) = octets[h]
    /\ \A r \in BufferRefs :
        buffers[r].refs = Cardinality({h \in Holders : holders[h] = r})
==============================================================================
