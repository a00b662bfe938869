------------------------------- MODULE Strings -------------------------------
(* Strings (string.c) under the operators of the language (stringop.c): like *)
(* lists a window on an array that is changed in place when nobody else      *)
(* refers to it, but ended by a NUL that the C functions look for, and       *)
(* keeping the regular expression compiled from it.                          *)
EXTENDS Integers, FiniteSets, SequencesExt

CONSTANTS TextVars,         \* variables of the frame or of the object
          MaxStrings,       \* bound: strings alive at a time
          MaxText,          \* bound: length of a string
          StringStart,      \* STARTING_SIZE (about 64)
          StringDelta,      \* MALLOC_DELTA (about 64)
          Mishandled        \* with the operations that the code gets wrong

TextSizes == LET grown[k \in 0 .. 3] == IF k = 0 THEN StringStart
                                        ELSE 2 * grown[k - 1] + StringDelta
             IN  {grown[k] : k \in 0 .. 3}

ASSUME StringsAssumption ==
    /\ IsFiniteSet(TextVars) /\ {"top", "code", "none"} \cap TextVars = {}
    /\ {MaxStrings, MaxText, StringStart, StringDelta} \subseteq Nat \ {0}
    /\ \E size \in TextSizes : MaxText <= size     \* the sizes listed are enough
    /\ Mishandled \in BOOLEAN

VARIABLES strings,  \* the string at each address
          texts,    \* the string in each variable, on top of the stack, and in
                    \* the opcodes of the method; 0 for the integer 0
          meanings  \* history: the text an immutable string would have there

stringVars == <<strings, texts, meanings>>

NUL == 0
Junk == 9               \* what realloc leaves in new memory
Lower == 1
Upper == 2
Places == TextVars \cup {"top", "code"}
Addresses == 1 .. MaxStrings
NoRegexp == <<Junk>>
Unused == [start |-> 0, len |-> 0, size |-> 0, refs |-> 0, s |-> <<>>, reg |-> NoRegexp]

TextSize(len) ==
    CHOOSE s \in TextSizes : s >= len /\ \A t \in TextSizes : t >= len => s <= t

(* emalloc clears; the NUL of a full array lies in the padding of the struct. *)
string_new(len) == [start |-> 0, len |-> 0, size |-> TextSize(len), refs |-> 1,
                    s |-> [i \in 0 .. TextSize(len) |-> NUL], reg |-> NoRegexp]

Char(str, i) == IF i \in DOMAIN str.s THEN str.s[i] ELSE Junk
Chars(str) == [i \in 1 .. str.len |-> Char(str, str.start + i - 1)]
Put(s, first, text) ==      \* memcpy
    [i \in DOMAIN s |-> IF i - first + 1 \in DOMAIN text THEN text[i - first + 1] ELSE s[i]]
(* What strcmp, strcstr and regcomp see: the characters up to the first NUL. *)
CString(str) ==
    LET ends == {i \in DOMAIN str.s : i >= str.start /\ str.s[i] = NUL}
        last == IF ends = {} THEN str.size ELSE Min(ends) - 1
    IN  [i \in 1 .. last - str.start + 1 |-> str.s[str.start + i - 1]]

string_dup(heap, r) == IF r = 0 THEN heap ELSE [heap EXCEPT ![r].refs = @ + 1]
string_discard(heap, r) ==
    IF r = 0 THEN heap
    ELSE IF heap[r].refs = 1 THEN [heap EXCEPT ![r] = Unused]
    ELSE [heap EXCEPT ![r].refs = @ - 1]

ResizeNeeded(str, start, len) ==
    \/ (len - start) * 4 < str.size /\ str.size > StringStart
    \/ str.size < len
MoveNeeded(str, start, len) ==
    \/ str.refs > 1
    \/ ResizeNeeded(str, start, len) /\ start > 0

MovedText(heap, r, start, len) ==
    LET str == heap[r]
        n == CHOOSE n \in Addresses : heap[n] = Unused
        stay == [i \in 1 .. (IF len > str.len THEN str.len ELSE len) |->
                    Char(str, start + i - 1)]
        cnew == string_new(len)
    IN  [ref |-> n, heap |-> string_discard([heap EXCEPT ![n] =
            [cnew EXCEPT !.len = len, !.s = Put(@, 0, stay)]], r)]
ResizedText(heap, r, len) ==
    LET str == heap[r] IN
    [ref |-> r, heap |-> [heap EXCEPT ![r] =
        [str EXCEPT !.len = len, !.size = TextSize(len),
                    !.s = [i \in 0 .. TextSize(len) |-> Char(str, i)]]]]
Bug_prepare_text(heap, r, start, len) ==
    IF ResizeNeeded(heap[r], start, len) /\ start > 0 THEN MovedText(heap, r, start, len)
    ELSE IF ResizeNeeded(heap[r], start, len) THEN ResizedText(heap, r, len)
    ELSE [ref |-> r, heap |-> [heap EXCEPT ![r] =
            [@ EXCEPT !.start = start, !.len = len, !.reg = NoRegexp]]]
prepare_text(heap, r, start, len) ==
    IF MoveNeeded(heap[r], start, len) THEN MovedText(heap, r, start, len)
    ELSE IF ResizeNeeded(heap[r], start, len) THEN ResizedText(heap, r, len)
    ELSE [ref |-> r, heap |-> [heap EXCEPT ![r] =
            [@ EXCEPT !.start = start, !.len = len, !.reg = NoRegexp]]]

Longer(heap, r, n) == prepare_text(heap, r, heap[r].start, heap[r].len + n)
Copied(p, text) ==  \* at the end of the window
    [p EXCEPT !.heap[p.ref].s =
        Put(@, p.heap[p.ref].start + p.heap[p.ref].len - Len(text), text)]
Ended(p) == [p EXCEPT !.heap[p.ref].s = Put(@, p.heap[p.ref].start + p.heap[p.ref].len, <<NUL>>)]

string_add(heap, r, other) ==
    LET more == Chars(heap[other]) IN Ended(Copied(Longer(heap, r, Len(more)), more))
string_add_padding(heap, r, n) == Copied(Longer(heap, r, n), [i \in 1 .. n |-> Lower])
string_truncate(heap, r, len) == Ended(prepare_text(heap, r, heap[r].start, len))
string_substring(heap, r, start, len) ==
    Ended(prepare_text(heap, r, heap[r].start + start, len))
string_case(heap, r, case) ==
    LET p == Longer(heap, r, 0)
        str == p.heap[p.ref]
    IN  [p EXCEPT !.heap[p.ref].s = [i \in DOMAIN @ |->
            IF i \in str.start .. str.start + str.len - 1 THEN case ELSE @[i]]]
string_regexp(heap, r) ==
    [heap EXCEPT ![r].reg = IF @ = NoRegexp THEN CString(heap[r]) ELSE @]

padded_left(heap, r, n) ==
    LET new == CHOOSE a \in Addresses : heap[a] = Unused
        p == string_add_padding([heap EXCEPT ![new] = string_new(n + heap[r].len)], new, n)
        q == string_add(p.heap, p.ref, r)
    IN  [q EXCEPT !.heap = string_discard(@, r)]
------------------------------------------------------------------------------
StringInit ==
    /\ strings = [a \in Addresses |-> IF a = 1 THEN [string_new(1) EXCEPT !.len = 1, !.s[0] = Lower]
                                      ELSE Unused]
    /\ texts = [p \in Places |-> IF p = "code" THEN 1 ELSE 0]
    /\ meanings = [p \in Places |-> IF p = "code" THEN <<Lower>> ELSE <<>>]

TextTargets == TextVars \cup {"none"}
Text == meanings["top"]
HasText == texts["top"] # 0
Zeroed(f, w, zero) == [p \in Places |-> IF p = w THEN zero ELSE f[p]]

(* The heap once the operand was pushed and the variable about to be         *)
(* assigned was zeroed (anticipate_assignment).                              *)
Pushed(w, other) ==
    string_discard(string_dup(strings, other), IF w \in TextVars THEN texts[w] ELSE 0)
Result(w, other, p, text) ==
    /\ strings' = string_discard(p.heap, other)
    /\ texts' = [Zeroed(texts, w, 0) EXCEPT !["top"] = p.ref]
    /\ meanings' = [Zeroed(meanings, w, <<>>) EXCEPT !["top"] = text]

SpareString == Cardinality({a \in Addresses : strings[a] = Unused}) >= 1

(* What the code handles: a window that grows in place begins its array, a   *)
(* string resized in place has no regular expression yet.                    *)
Handled(heap, start, len) ==
    LET str == heap[texts["top"]] IN
    \/ Mishandled
    \/ MoveNeeded(str, start, len)
    \/ /\ len > str.len => str.start = 0
       /\ ResizeNeeded(str, start, len) => str.reg = NoRegexp
Here(heap) == heap[texts["top"]]

PushText ==     \* op_string, op_get_local
    /\ ~HasText
    /\ \E p \in {q \in Places : texts[q] # 0} :
        /\ strings' = string_dup(strings, texts[p])
        /\ texts' = [texts EXCEPT !["top"] = texts[p]]
        /\ meanings' = [meanings EXCEPT !["top"] = meanings[p]]

AssignText ==
    /\ HasText
    /\ \E v \in TextVars :
        /\ strings' = string_dup(string_discard(strings, texts[v]), texts["top"])
        /\ texts' = [texts EXCEPT ![v] = texts["top"]]
        /\ meanings' = [meanings EXCEPT ![v] = Text]

PopText ==
    /\ HasText
    /\ strings' = string_discard(strings, texts["top"])
    /\ texts' = [texts EXCEPT !["top"] = 0]
    /\ meanings' = [meanings EXCEPT !["top"] = <<>>]

AddStrings(w) ==
    /\ HasText /\ SpareString
    /\ \E p \in Places : \E heap \in {Pushed(w, texts[p])} :
        /\ texts[p] # 0 /\ Len(Text) + Len(meanings[p]) <= MaxText
        /\ Handled(heap, Here(heap).start, Here(heap).len + Len(meanings[p]))
        /\ Result(w, texts[p], string_add(heap, texts["top"], texts[p]), Text \o meanings[p])

OpSubstr(w) ==
    /\ HasText /\ SpareString
    /\ \E start \in 0 .. Len(Text) - 1 : \E len \in 0 .. Len(Text) - start :
       \E heap \in {Pushed(w, 0)} :
        /\ Handled(heap, Here(heap).start + start, len)
        /\ Result(w, 0, string_substring(heap, texts["top"], start, len),
                  SubSeq(Text, start + 1, start + len))

OpPad(w) ==
    /\ HasText /\ SpareString
    /\ \E len \in 0 .. MaxText, right \in BOOLEAN : \E heap \in {Pushed(w, 0)} :
        LET padding == len - Len(Text)
            fill == [i \in 1 .. padding |-> Lower]
        IN  \/ /\ padding < 0 /\ Handled(heap, Here(heap).start, len)
               /\ Result(w, 0, string_truncate(heap, texts["top"], len), SubSeq(Text, 1, len))
            \/ /\ padding > 0 /\ right
               /\ Mishandled \/ Here(heap).refs > 1    \* else nothing ends it
               /\ Result(w, 0, string_add_padding(heap, texts["top"], padding), Text \o fill)
            \/ /\ padding > 0 /\ ~right
               /\ Result(w, 0, padded_left(heap, texts["top"], padding), fill \o Text)
            \/ /\ padding = 0
               /\ Result(w, 0, [heap |-> heap, ref |-> texts["top"]], Text)

OpCase ==   \* op_uppercase, op_lowercase
    /\ HasText /\ SpareString
    /\ \E case \in {Lower, Upper} :
        /\ Handled(strings, Here(strings).start, Here(strings).len)
        /\ Result("none", 0, string_case(strings, texts["top"], case), [i \in DOMAIN Text |-> case])

OpMatchRegexp ==    \* with the string on top as the pattern
    /\ HasText
    /\ strings' = string_regexp(strings, texts["top"])
    /\ UNCHANGED <<texts, meanings>>

StringNext ==
    \/ PushText \/ AssignText \/ PopText \/ OpCase \/ OpMatchRegexp
    \/ \E w \in TextTargets : AddStrings(w) \/ OpSubstr(w) \/ OpPad(w)
StringSpec == StringInit /\ [][StringNext]_stringVars
------------------------------------------------------------------------------
(* Whatever strings share, every variable holds the text it would hold if    *)
(* strings were copied whenever they are assigned or passed, ended by a NUL  *)
(* (stringop.c:88), and a compiled regular expression is the one of the text *)
(* (string.c:235).                                                           *)
StringsKept ==
    \A p \in Places : texts[p] # 0 =>
        LET str == strings[texts[p]] IN
        /\ CString(str) = meanings[p] /\ Chars(str) = meanings[p]
        /\ str.reg \in {NoRegexp, meanings[p]}
        /\ str.refs = Cardinality({q \in Places : texts[q] = texts[p]})
==============================================================================
