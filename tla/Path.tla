-------------------------------- MODULE Path --------------------------------
(***************************************************************************)
(* Paths of the virtual file system (hal/path.rs): a string that starts    *)
(* with a slash, cut into components by an iterator with two ends.  A      *)
(* string is a sequence of characters; offsets count from 0 as in the      *)
(* code.  A call of next or next_back is one step.                         *)
(***************************************************************************)
EXTENDS Integers, Sequences
LOCAL INSTANCE SequencesExt

CONSTANTS
    Strings,    \* the strings paths are made from
    Others,     \* the strings they are joined with
    Nothing     \* Option::None

VARIABLES
    raw,            \* the path
    iter,           \* its iterator: Components
    heads, tails    \* history: what next and next_back returned

pathVars == <<raw, iter, heads, tails>>

Root == <<"/">>
IsAbsolute(s) == s # <<>> /\ s[1] = "/"
new_appended(s) == IF IsAbsolute(s) THEN s ELSE Root \o s

components(s) == [path |-> s, front |-> 1, back |-> Len(s)]

(* str::find and str::rfind of a slash. *)
SlashesOf(s) == {k \in 0 .. Len(s) - 1 : s[k + 1] = "/"}
find(s) == CHOOSE k \in SlashesOf(s) : \A l \in SlashesOf(s) : k <= l
rfind(s) == CHOOSE k \in SlashesOf(s) : \A l \in SlashesOf(s) : l <= k

Rest(it) == SubSeq(it.path, it.front + 1, it.back)

(* The iterator after the call, and what the call returns; a component     *)
(* that is empty is skipped.                                               *)
RECURSIVE next(_)
next(it) ==
    LET rest == Rest(it)
        past == [it EXCEPT !.front = @ + find(rest) + 1]
    IN  IF it.front >= it.back THEN <<it, Nothing>>
        ELSE IF SlashesOf(rest) = {} THEN <<[it EXCEPT !.front = it.back], rest>>
        ELSE IF find(rest) > 0 THEN <<past, SubSeq(rest, 1, find(rest))>>
        ELSE next(past)

(* Mutation: the offset of the slash is taken for an offset in the path. *)
RECURSIVE next_back_NoFront(_)
next_back_NoFront(it) ==
    LET rest == Rest(it)
        past == [it EXCEPT !.back = rfind(rest)]
    IN  IF it.front >= it.back THEN <<it, Nothing>>
        ELSE IF SlashesOf(rest) = {} THEN <<[it EXCEPT !.back = it.front], rest>>
        ELSE IF rfind(rest) + 1 < Len(rest) THEN <<past, SubSeq(rest, rfind(rest) + 2, Len(rest))>>
        ELSE next_back_NoFront(past)

RECURSIVE next_back(_)
next_back(it) ==
    LET rest == Rest(it)
        past == [it EXCEPT !.back = it.front + rfind(rest)]
    IN  IF it.front >= it.back THEN <<it, Nothing>>
        ELSE IF SlashesOf(rest) = {} THEN <<[it EXCEPT !.back = it.front], rest>>
        ELSE IF rfind(rest) + 1 < Len(rest) THEN <<past, SubSeq(rest, rfind(rest) + 2, Len(rest))>>
        ELSE next_back(past)

RECURSIVE collect(_)
collect(it) ==
    LET n == next(it)
    IN  IF n[2] = Nothing THEN <<>> ELSE <<n[2]>> \o collect(n[1])

file_name(s) == next_back(components(s))[2]

RECURSIVE TrimEnd(_)
TrimEnd(s) == IF s # <<>> /\ Last(s) = "/" THEN TrimEnd(Front(s)) ELSE s

parent(s) ==
    LET trimmed == TrimEnd(s)
    IN  IF s = Root THEN Nothing
        ELSE IF SlashesOf(trimmed) = {} \/ rfind(trimmed) = 0 THEN Root
        ELSE SubSeq(s, 1, rfind(trimmed))

(* Mutation: ".." is a name like any other. *)
Pushed_All(stack, c) == IF c = <<".">> THEN stack ELSE Append(stack, c)

(* normalize: a stack of components, then the string of what is left. *)
Pushed(stack, c) ==
    CASE c = <<".">> -> stack
      [] c = <<".", ".">> -> IF stack = <<>> THEN stack ELSE Front(stack)
      [] OTHER -> Append(stack, c)

normalize(s) ==
    LET stack == FoldLeft(Pushed, <<>>, collect(components(s)))
    IN  Root \o FlattenSeq([k \in DOMAIN stack |-> IF k > 1 THEN Root \o stack[k] ELSE stack[k]])

join(s, other) ==
    IF IsAbsolute(other) THEN other
    ELSE s \o (IF Last(s) = "/" THEN <<>> ELSE Root) \o other

-----------------------------------------------------------------------------
PathRest(s) == raw = new_appended(s) /\ iter = components(raw) /\ heads = <<>> /\ tails = <<>>

PathInit == \E s \in Strings : PathRest(s)

TakeFront ==
    LET n == next(iter)
    IN  /\ n[2] # Nothing
        /\ iter' = n[1] /\ heads' = Append(heads, n[2])
        /\ UNCHANGED <<raw, tails>>

TakeBack ==
    LET n == next_back(iter)
    IN  /\ n[2] # Nothing
        /\ iter' = n[1] /\ tails' = Append(tails, n[2])
        /\ UNCHANGED <<raw, heads>>

PathNext == TakeFront \/ TakeBack

PathSpec == PathInit /\ [][PathNext]_pathVars

-----------------------------------------------------------------------------
(* What the components of a string are: its longest runs without a slash,  *)
(* from left to right.                                                     *)
Runs(s) == {r \in (1 .. Len(s)) \X (1 .. Len(s)) :
                /\ r[1] <= r[2]
                /\ \A k \in r[1] .. r[2] : s[k] # "/"
                /\ r[1] = 1 \/ s[r[1] - 1] = "/"
                /\ r[2] = Len(s) \/ s[r[2] + 1] = "/"}
Split(s) ==
    LET runs == SetToSortSeq(Runs(s), LAMBDA p, q : p[1] < q[1])
    IN  [k \in DOMAIN runs |-> SubSeq(s, runs[k][1], runs[k][2])]

(* In which order the two ends are read does not matter: together they     *)
(* return every component once, and stop when they meet.                   *)
EndsMeet == heads \o Split(Rest(iter)) \o Reverse(tails) = Split(raw)

(* A name survives normalisation unless a later ".." takes it away, like a *)
(* bracket that is closed.                                                 *)
Up == <<".", ".">>
IsName(x) == x \notin {<<".">>, Up}
Survives(c, k) ==
    /\ IsName(c[k])
    /\ \A l \in k + 1 .. Len(c) :
        LET after == SubSeq(c, k + 1, l)
        IN  Len(SelectSeq(after, LAMBDA x : x = Up)) <= Len(SelectSeq(after, IsName))

Survivors(c) ==
    LET left == SetToSortSeq({k \in DOMAIN c : Survives(c, k)}, <)
    IN  [k \in DOMAIN left |-> c[left[k]]]

(* The lookup and the creation of a file work on the normal form of a path *)
(* and on its last component.  The normal form is the string the surviving *)
(* names spell, with nothing left to normalise; the name, the parent and a *)
(* join are what they are of the components, however many slashes there    *)
(* are.                                                                    *)
NormalFormsAgree ==
    iter = components(raw) =>
        /\ Split(normalize(raw)) = Survivors(Split(raw))
        /\ normalize(normalize(raw)) = normalize(raw)
        /\ file_name(raw) = IF Split(raw) = <<>> THEN Nothing ELSE Last(Split(raw))
        /\ raw # Root => Split(parent(raw)) = IF Split(raw) = <<>> THEN <<>> ELSE Front(Split(raw))
        /\ \A o \in Others : Split(join(raw, o)) = (IF IsAbsolute(o) THEN <<>> ELSE Split(raw)) \o Split(o)

(* What is read of a path from either end, and what is computed from its   *)
(* string, agree with its components.                                      *)
PathsAgree == EndsMeet /\ NormalFormsAgree
=============================================================================
