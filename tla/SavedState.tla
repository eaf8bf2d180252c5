------------------------------- MODULE SavedState -----------------------------
(***************************************************************************)
(* savestate and restorestate (src/src/builtins/sli_state_ops.cpp): both   *)
(* stacks written to a file and read back (src/src/serialize).             *)
(*                                                                         *)
(* A file is a sequence of words: the length of a stack or an array, a     *)
(* scalar token, a composite token with the number of its payload, the     *)
(* characters of a string, an access state.  A payload is numbered when it *)
(* is met first, and only then does its body follow.  Both directions      *)
(* recurse into arrays; the models keep what is still to do explicitly.    *)
(***************************************************************************)
EXTENDS Heap

NoFile == <<"none">>

Count(n) == <<"count", n>>
Chars(s) == <<"chars", s>>
Access(a) == <<"access", a>>
PayloadTags == ArrayTags \cup {"string"}

-----------------------------------------------------------------------------
(* Writing *)

BodyWords(o) ==
    (IF o.kind = "string" THEN <<Chars(o.body)>> ELSE <<Count(Len(o.body))>> \o o.body)
    \o <<Access(o.acc)>>

\* The writer takes the next of the words and tokens to be written.
InternNothing(w, t, body) ==
    [out |-> Append(w.out, <<Tag(t), Len(w.seen) + 1>>),
     seen |-> Append(w.seen, Data(t)), todo |-> body \o Tail(w.todo)]

\* A payload that has its number is written as that number alone.
InternObject(w, t, body) ==
    LET known == {i \in DOMAIN w.seen : w.seen[i] = Data(t)}
    IN  IF known = {} THEN InternNothing(w, t, body)
        ELSE [w EXCEPT !.out = Append(@, <<Tag(t), CHOOSE i \in known : TRUE>>),
                       !.todo = Tail(@)]

\* A dictionary has no serialize of its own: it writes its type and no more.
WriteToken(m, w) ==
    LET t == Head(w.todo)
    IN  IF w.todo = <<>> THEN w
        ELSE IF Tag(t) \in PayloadTags THEN InternObject(w, t, BodyWords(Payload(m, t)))
        ELSE [w EXCEPT !.out = Append(@, IF Tag(t) = "dictionary" THEN <<Tag(t), 0>> ELSE t),
                       !.todo = Tail(@)]

StackWords(s) == <<Count(Len(s))>> \o s

\* No word is taken twice, and a payload gives its own once.
WriteRounds(m) ==
    2 + Len(m.st) + Len(m.es) + 2 * MaxObjects
    + Cardinality(UNION {{x} \X DOMAIN m.heap[x].body : x \in Ids})

StartWriting(m) ==
    [out |-> <<>>, seen |-> <<>>, todo |-> StackWords(m.st) \o StackWords(m.es)]

Image(m) ==
    LET writer[n \in 0..WriteRounds(m)] ==
            IF n = 0 THEN StartWriting(m) ELSE WriteToken(m, writer[n - 1])
    IN  writer[WriteRounds(m)].out

-----------------------------------------------------------------------------
(* Reading: open holds what is being read, the innermost last.  A frame with
   payload 0 is one of the two stacks; left is how many tokens it still lacks,
   and got the ones, or the characters, that it has; objects are the payloads
   by the numbers that the file gives them. *)

Unread == -1
Frame(tag, x) == [tag |-> tag, x |-> x, left |-> Unread, got |-> <<>>]

StartReading(m, file) ==
    [ in |-> file, m |-> m, err |-> FALSE, objects |-> <<>>, stacks |-> <<>>,
      open |-> <<Frame("estack", 0), Frame("ostack", 0)>> ]

TopFrame(r) == Last(r.open)
SetTop(r, frame) == [r EXCEPT !.open = Append(Front(@), frame), !.in = Tail(@)]

\* A token is complete: the innermost frame has one more.
Give(open, t) ==
    Append(Front(open), [Last(open) EXCEPT !.got = Append(@, t), !.left = @ - 1])

\* A word that savestate would not have put at this place.
Astray(r) == [r EXCEPT !.err = TRUE]

ReadLength(r) ==
    LET word == Head(r.in)
        f == TopFrame(r)
    IN  IF Tag(word) # (IF f.tag = "string" THEN "chars" ELSE "count") THEN Astray(r)
        ELSE SetTop(r, IF f.tag = "string" THEN [f EXCEPT !.left = 0, !.got = Data(word)]
                       ELSE [f EXCEPT !.left = Data(word)])

\* A payload that has been met before is shared; a new one is registered before
\* its elements are read, so an array may hold itself.
ReadToken(r) ==
    LET t == Head(r.in)
        x == LeastFree(r.m)
    IN  IF Tag(t) \in {"count", "chars", "access"} THEN Astray(r)
        ELSE IF Tag(t) = "dictionary" THEN [r EXCEPT !.in = Tail(@), !.open = Give(@, Garbage)]
        ELSE IF Tag(t) \notin PayloadTags THEN [r EXCEPT !.in = Tail(@), !.open = Give(@, t)]
        ELSE IF Data(t) \in DOMAIN r.objects
        THEN [r EXCEPT !.in = Tail(@), !.open = Give(@, <<Tag(t), r.objects[Data(t)]>>)]
        ELSE IF FreeIds(r.m) = {} THEN [r EXCEPT !.m.room = FALSE, !.open = <<>>]
        ELSE [r EXCEPT !.in = Tail(@), !.m.heap[x] = Fresh(Tag(t), <<>>),
                       !.objects = WithKey(@, Data(t), x), !.open = Append(@, Frame(Tag(t), x))]

CloseStack(r) ==
    [r EXCEPT !.open = Front(@), !.stacks = Append(@, TopFrame(r).got)]

ReadAccess(r) ==
    LET f == TopFrame(r)
    IN  IF Tag(Head(r.in)) # "access" THEN Astray(r)
        ELSE [r EXCEPT !.in = Tail(@), !.open = Give(Front(@), <<f.tag, f.x>>),
                       !.m.heap[f.x] = [@ EXCEPT !.acc = Data(Head(r.in)), !.body = f.got]]

Reading(r) ==
    LET f == TopFrame(r)
    IN  IF r.err \/ r.open = <<>> THEN r
        ELSE IF f.left = 0 /\ f.x = 0 THEN CloseStack(r)
        ELSE IF r.in = <<>> THEN [r EXCEPT !.err = TRUE]
        ELSE IF f.left = Unread THEN ReadLength(r)
        ELSE IF f.left = 0 THEN ReadAccess(r)
        ELSE ReadToken(r)

\* Every round but the two that close a stack, and the last, takes a word.
ReadState(m, file) ==
    LET reader[n \in 0..(Len(file) + 3)] ==
            IF n = 0 THEN StartReading(m, file) ELSE Reading(reader[n - 1])
    IN  reader[Len(file) + 3]

\* The end of the file leaves the payloads that were being read to nobody; a
\* string is made only when all of its characters are there.
Abandoned(r) ==
    LET halves == {i \in DOMAIN r.open : r.open[i].x # 0}
        left(x) == CHOOSE i \in halves : r.open[i].x = x
        Rest(f, o) == IF f.tag = "string" /\ f.left = Unread THEN Free
                      ELSE [o EXCEPT !.body = f.got, !.lost = 1]
    IN  [r.m EXCEPT !.heap =
            [x \in Ids |-> IF \E i \in halves : r.open[i].x = x
                           THEN Rest(r.open[left(x)], r.m.heap[x]) ELSE r.m.heap[x]]]

-----------------------------------------------------------------------------
(* The operators; both drop the file's name before they can fail *)

\* The stream is never asked whether it took the words, so a full disk cuts the
\* file short and nobody is told.
SaveStateFunction(m) == Typed(m, <<"string">>, Done(Popped(m, 1)))
CannotOpen(m) == Typed(m, <<"string">>, Raise(Popped(m, 1), "BadIO"))

RestoreStackByStack(m, file) ==
    Typed(m, <<"string">>,
        LET r == ReadState(Popped(m, 1), file)
            m2 == IF r.stacks = <<>> THEN Abandoned(r)
                  ELSE [Abandoned(r) EXCEPT !.st = r.stacks[1]]
        IN  IF ~r.m.room THEN Done(r.m)
            ELSE IF r.err THEN Raise(m2, "BadIO")
            ELSE Done([r.m EXCEPT !.st = r.stacks[1], !.es = r.stacks[2]]))

\* Both stacks are read before either is replaced.
RestoreStateFunction(m, file) ==
    Typed(m, <<"string">>,
        LET r == ReadState(Popped(m, 1), file)
        IN  IF ~r.m.room THEN Done(r.m)
            ELSE IF r.err THEN Raise(Abandoned(r), "BadIO")
            ELSE Done([r.m EXCEPT !.st = r.stacks[1], !.es = r.stacks[2]]))
=============================================================================
