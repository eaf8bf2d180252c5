---------------------------- MODULE GraphicsProofs ----------------------------
(***************************************************************************)
(* Handles, files, saved states and baselines of the graphics module, for  *)
(* any pages, any programs and any bounds.                                 *)
(***************************************************************************)
EXTENDS Graphics, TLAPS

-----------------------------------------------------------------------------
(* Drawing contexts: what every call of Cairo that the module makes keeps  *)

SoundDrawing(cr, pg) ==
    /\ cr \in Drawings /\ Len(cr.saves) <= MaxSaves + Left(cr)
    /\ Drawable(cr)
    /\ AtBaseline(cr.g.ctm, pg) /\ \A i \in DOMAIN cr.saves : AtBaseline(cr.saves[i].ctm, pg)

\* A fresh drawing context is at the baseline of its page.
LEMMA FreshDrawing ==
    ASSUME NEW pg, NEW h \in Sizes, NEW s \in Sizes, pg.height = h, pg.scale = s
    PROVE  SoundDrawing(DrawingContext(h, s), pg)
<1> DEFINE new == DrawingContext(h, s)
<1>1. new.g \in GraphicsState
  BY DEF DrawingContext, GraphicsState, Baseline, Attributes
<1>2. new \in Drawings
  BY <1>1 DEF DrawingContext, Drawings, NoPath, Statuses
<1>3. AtBaseline(new.g.ctm, pg)
  BY DEF AtBaseline, DrawingContext, Baseline
<1>4. new.saves = <<>> /\ new.status = "success"
  BY DEF DrawingContext
<1> QED
  BY <1>2, <1>3, <1>4, GraphicsAssumption DEF SoundDrawing, Drawable, Left

LEMMA ErrorsLeaveRoom ==
    ASSUME NEW pg, NEW cr, SoundDrawing(cr, pg), cr.status = "success",
           NEW new, new.saves = cr.saves
    PROVE  Len(new.saves) <= MaxSaves + Left(new)
<1>1. cr.saves \in Seq(GraphicsState) /\ Len(cr.saves) <= MaxSaves + Left(cr)
  BY DEF SoundDrawing, Drawings
<1>2. Left(cr) = 0 /\ Left(new) \in {0, 1}
  BY DEF Left
<1> QED
  BY <1>1, <1>2, GraphicsAssumption

\* An error keeps everything but the status, and the module raises only four.
LEMMA BrokenIsSound ==
    ASSUME NEW pg, NEW cr, NEW status, SoundDrawing(cr, pg),
           \/ status = "invalid restore" /\ cr.saves = <<>>
           \/ status = "no current point" /\ ~cr.path.point
           \/ status = "invalid matrix" /\ Gives(Moving)
           \/ status = "invalid string" /\ Gives(Saying)
    PROVE  SoundDrawing(Broken(cr, status), pg)
<1>1. CASE cr.status # "success"
  BY <1>1 DEF Broken, Cairo
<1>2. CASE cr.status = "success"
  <2> DEFINE new == [cr EXCEPT !.status = status]
  <2>1. Broken(cr, status) = new
    BY <1>2 DEF Broken, Cairo
  <2>2. cr \in Drawings
    BY DEF SoundDrawing
  <2>3. /\ new \in Drawings /\ new.status = status
        /\ new.saves = cr.saves /\ new.g = cr.g /\ new.path = cr.path
    BY <2>2 DEF Drawings, Statuses
  <2> HIDE DEF new
  <2> QED
    <3>1. Drawable(new)
      BY <2>3 DEF Drawable
    <3>2. Len(new.saves) <= MaxSaves + Left(new)
      BY <1>2, <2>3, ErrorsLeaveRoom
    <3> QED
      BY <2>1, <2>3, <3>1, <3>2 DEF SoundDrawing
<1> QED
  BY <1>1, <1>2

\* A change that leaves the status at success has only the states to answer for.
LEMMA CairoIsSound ==
    ASSUME NEW pg, NEW cr, NEW new, SoundDrawing(cr, pg),
           cr.status = "success" =>
               /\ new \in Drawings /\ new.status = "success" /\ Len(new.saves) <= MaxSaves + Left(cr)
               /\ AtBaseline(new.g.ctm, pg) /\ \A i \in DOMAIN new.saves : AtBaseline(new.saves[i].ctm, pg)
    PROVE  SoundDrawing(Cairo(cr, new), pg)
<1>1. CASE cr.status = "success"
  <2>1. Left(cr) = Left(new) /\ Drawable(new)
    BY <1>1 DEF Left, Drawable
  <2> QED
    BY <1>1, <2>1 DEF Cairo, SoundDrawing
<1>2. CASE cr.status # "success"
  BY <1>2 DEF Cairo
<1> QED
  BY <1>1, <1>2

LEMMA SaveIsSound ==
    ASSUME NEW pg, NEW cr, SoundDrawing(cr, pg), Len(cr.saves) < MaxSaves
    PROVE  SoundDrawing(cairo_save(cr), pg)
<1> DEFINE new == [cr EXCEPT !.saves = Append(@, cr.g)]
<1>1. cr \in Drawings
  BY DEF SoundDrawing
<1>2. cr.saves \in Seq(GraphicsState) /\ cr.g \in GraphicsState
  BY <1>1 DEF Drawings
<1>a. Append(cr.saves, cr.g) \in Seq(GraphicsState)
  BY <1>2
<1>3. new \in Drawings /\ new.status = cr.status /\ new.g = cr.g /\ new.saves = Append(cr.saves, cr.g)
  BY <1>1, <1>a DEF Drawings
<1>4. Len(new.saves) <= MaxSaves + Left(cr)
  BY <1>2, <1>3, GraphicsAssumption DEF Left
<1>5. \A i \in DOMAIN new.saves : new.saves[i] \in {cr.g} \cup {cr.saves[j] : j \in DOMAIN cr.saves}
  BY <1>2, <1>3
<1>6. \A i \in DOMAIN new.saves : AtBaseline(new.saves[i].ctm, pg)
  BY <1>5 DEF SoundDrawing
<1> HIDE DEF new
<1>7. AtBaseline(new.g.ctm, pg)
  BY <1>3 DEF SoundDrawing
<1>8. SoundDrawing(Cairo(cr, new), pg)
  BY <1>3, <1>4, <1>6, <1>7, CairoIsSound
<1> QED
  BY <1>8 DEF cairo_save, new

LEMMA RestoreIsSound ==
    ASSUME NEW pg, NEW cr, SoundDrawing(cr, pg)
    PROVE  SoundDrawing(cairo_restore(cr), pg)
<1>1. CASE cr.saves = <<>>
  BY <1>1, BrokenIsSound DEF cairo_restore
<1>2. CASE cr.saves # <<>>
  <2> DEFINE n == Len(cr.saves)
             new == [cr EXCEPT !.g = cr.saves[n], !.saves = SubSeq(@, 1, n - 1)]
  <2>1. cr \in Drawings
    BY DEF SoundDrawing
  <2>2. cr.saves \in Seq(GraphicsState) /\ n \in Nat /\ n > 0
    BY <1>2, <2>1 DEF Drawings
  <2>3. cr.saves[n] \in GraphicsState /\ SubSeq(cr.saves, 1, n - 1) \in Seq(GraphicsState)
    BY <2>2
  <2>4. new \in Drawings /\ new.status = cr.status /\ new.g = cr.saves[n] /\ new.saves = SubSeq(cr.saves, 1, n - 1)
    BY <2>1, <2>3 DEF Drawings
  <2>5. Len(new.saves) = n - 1 /\ \A i \in DOMAIN new.saves : i \in DOMAIN cr.saves /\ new.saves[i] = cr.saves[i]
    BY <2>2, <2>4
  <2>6. Len(new.saves) <= MaxSaves + Left(cr)
    BY <2>2, <2>5, GraphicsAssumption DEF SoundDrawing, Left
  <2>7. AtBaseline(new.g.ctm, pg) /\ \A i \in DOMAIN new.saves : AtBaseline(new.saves[i].ctm, pg)
    BY <2>2, <2>4, <2>5 DEF SoundDrawing
  <2> HIDE DEF new
  <2>8. SoundDrawing(Cairo(cr, new), pg)
    BY <2>4, <2>6, <2>7, CairoIsSound
  <2> QED
    BY <1>2, <2>8 DEF cairo_restore, new, n
<1> QED
  BY <1>1, <1>2

\* The module gives Cairo an unusable operand only if the program gave it one.
LEMMA UnusableIsGiven ==
    ASSUME NEW c \in theme.commands, IsCommand(c), c.arg = "unusable"
    PROVE  (c.op \in Moving => Gives(Moving)) /\ (c.op \in Saying => Gives(Saying))
BY DEF Gives

\* What lies between a save and its restore moves the matrix, reads a text, or
\* does neither.
Between(cr) ==
    {cr} \cup {Moved(cr, arg) : arg \in {x \in {"good", "other", "bad", "unusable"} :
                                            x = "unusable" => Gives(Moving)}}
         \cup {Said(cr, arg) : arg \in {x \in {"good", "other", "bad", "unusable"} :
                                           x = "unusable" => Gives(Saying)}}

\* A command that saves and restores around what it does leaves nothing, but
\* what it saved when Cairo stops it in between.
LEMMA SaveRestoreIsNothing ==
    ASSUME NEW pg, NEW cr, SoundDrawing(cr, pg), NEW did \in Between(cairo_save(cr))
    PROVE  SoundDrawing(cairo_restore(did), pg)
<1>1. cr \in Drawings
  BY DEF SoundDrawing
<1>2. cr.saves \in Seq(GraphicsState) /\ cr.g \in GraphicsState
  BY <1>1 DEF Drawings
<1>3. CASE cr.status # "success"
  <2>1. cairo_save(cr) = cr
    BY <1>3 DEF cairo_save, Cairo
  <2>2. did = cr
    BY <1>3, <2>1 DEF Between, Moved, Said, Broken, Cairo
  <2> QED
    BY <2>2, RestoreIsSound
<1>4. CASE cr.status = "success"
  <2> DEFINE mid == [cr EXCEPT !.saves = Append(@, cr.g)]
             n == Len(mid.saves)
  <2>a. Append(cr.saves, cr.g) \in Seq(GraphicsState)
    BY <1>2
  <2>1. mid \in Drawings /\ mid.status = cr.status /\ mid.g = cr.g /\ mid.path = cr.path
        /\ mid.saves = Append(cr.saves, cr.g)
    BY <1>1, <2>a DEF Drawings
  <2>2. /\ mid.saves # <<>> /\ n = Len(cr.saves) + 1
        /\ mid.saves[n] = cr.g
        /\ SubSeq(mid.saves, 1, n - 1) = cr.saves
    BY <1>2, <2>1
  <2>3. cairo_save(cr) = mid
    BY <1>4 DEF cairo_save, Cairo
  <2>4. \A i \in DOMAIN mid.saves : AtBaseline(mid.saves[i].ctm, pg)
    <3>1. \A i \in DOMAIN mid.saves : mid.saves[i] \in {cr.g} \cup {cr.saves[j] : j \in DOMAIN cr.saves}
      BY <1>2, <2>1
    <3> QED
      BY <3>1 DEF SoundDrawing
  <2> HIDE DEF mid
  <2>5. ASSUME NEW mv \in Drawings, mv.status = "success", mv.saves = mid.saves
        PROVE  SoundDrawing(cairo_restore(mv), pg)
    <3> DEFINE new == [mv EXCEPT !.g = mv.saves[Len(mv.saves)], !.saves = SubSeq(@, 1, Len(@) - 1)]
    <3>1. new \in Drawings /\ new.status = "success" /\ new.g = cr.g /\ new.saves = cr.saves
      BY <1>2, <2>2, <2>5 DEF Drawings
    <3>2. cairo_restore(mv) = Cairo(mv, new)
      BY <2>2, <2>5 DEF cairo_restore
    <3> HIDE DEF new
    <3>3. cairo_restore(mv) = new
      BY <2>5, <3>2 DEF Cairo
    <3> QED
      BY <1>4, <3>1, <3>3 DEF SoundDrawing, Drawable, Left
  <2>6. ASSUME NEW status, \/ status = "invalid matrix" /\ Gives(Moving)
                           \/ status = "invalid string" /\ Gives(Saying)
        PROVE  SoundDrawing(cairo_restore(Broken(mid, status)), pg)
    <3> DEFINE new == [mid EXCEPT !.status = status]
    <3>1. new \in Drawings /\ new.status = status /\ new.saves = mid.saves /\ new.g = cr.g
      BY <2>1, <2>6 DEF Drawings, Statuses
    <3>2. Broken(mid, status) = new
      BY <1>4, <2>1 DEF Broken, Cairo
    <3> HIDE DEF new
    <3>3. cairo_restore(new) = new
      BY <2>2, <2>6, <3>1 DEF cairo_restore, Cairo
    <3>4. Len(new.saves) <= MaxSaves + Left(new)
      <4>1. Left(new) = 1 /\ Left(cr) = 0
        BY <1>4, <2>6, <3>1 DEF Left
      <4>2. Len(cr.saves) <= MaxSaves /\ Len(cr.saves) \in Nat
        BY <1>2, <4>1, GraphicsAssumption DEF SoundDrawing
      <4> QED
        BY <2>2, <3>1, <4>1, <4>2, GraphicsAssumption
    <3>5. Drawable(new)
      BY <2>6, <3>1 DEF Drawable
    <3>6. SoundDrawing(new, pg)
      BY <2>4, <3>1, <3>4, <3>5 DEF SoundDrawing
    <3> QED
      BY <3>2, <3>3, <3>6
  <2>7. CASE did = mid
    BY <1>4, <2>1, <2>5, <2>7
  <2>8. ASSUME NEW arg \in {"good", "other", "bad", "unusable"}, arg = "unusable" => Gives(Moving), did = Moved(mid, arg)
        PROVE  SoundDrawing(cairo_restore(did), pg)
    <3>1. CASE arg = "unusable"
      BY <2>6, <2>8, <3>1 DEF Moved
    <3>2. CASE arg # "unusable"
      <4> DEFINE mv == [mid EXCEPT !.g.ctm.by = "program"]
      <4>1. mv \in Drawings /\ mv.status = "success" /\ mv.saves = mid.saves
        BY <1>4, <2>1 DEF Drawings, GraphicsState
      <4>2. did = mv
        BY <1>4, <2>1, <2>8, <3>2 DEF Moved, Cairo
      <4> QED
        BY <2>5, <4>1, <4>2
    <3> QED
      BY <3>1, <3>2
  <2>9. ASSUME NEW arg \in {"good", "other", "bad", "unusable"}, arg = "unusable" => Gives(Saying), did = Said(mid, arg)
        PROVE  SoundDrawing(cairo_restore(did), pg)
    <3>1. CASE arg = "unusable"
      BY <2>6, <2>9, <3>1 DEF Said
    <3>2. CASE arg # "unusable"
      BY <1>4, <2>1, <2>5, <2>9, <3>2 DEF Said
    <3> QED
      BY <3>1, <3>2
  <2>10. \/ did = mid
         \/ \E arg \in {"good", "other", "bad", "unusable"} :
                (arg = "unusable" => Gives(Moving)) /\ did = Moved(mid, arg)
         \/ \E arg \in {"good", "other", "bad", "unusable"} :
                (arg = "unusable" => Gives(Saying)) /\ did = Said(mid, arg)
    BY <2>3 DEF Between
  <2> QED
    BY <2>7, <2>8, <2>9, <2>10
<1> QED
  BY <1>3, <1>4

Pieces == {"line", "curve", "close"}

\* Path commands change the path alone.
LEMMA PathIsSound ==
    ASSUME NEW pg, NEW cr, NEW segments \in SUBSET Pieces, SoundDrawing(cr, pg)
    PROVE  /\ SoundDrawing(Drawn(cr, segments), pg)
           /\ SoundDrawing(Relative(cr, segments), pg)
           /\ SoundDrawing(Cleared(cr), pg)
           /\ SoundDrawing(Drawn(Cleared(cr), segments), pg)
<1>1. ASSUME NEW x, SoundDrawing(x, pg)
      PROVE  SoundDrawing(Drawn(x, segments), pg)
  <2> DEFINE new == [x EXCEPT !.path = [point |-> TRUE, segments |-> @.segments \cup segments]]
  <2>1. x \in Drawings
    BY <1>1 DEF SoundDrawing
  <2>2. new \in Drawings /\ new.status = x.status /\ new.g = x.g /\ new.saves = x.saves
    BY <2>1 DEF Drawings, Pieces
  <2> HIDE DEF new
  <2>3. SoundDrawing(Cairo(x, new), pg)
    BY <1>1, <2>2, CairoIsSound DEF SoundDrawing
  <2> QED
    BY <2>3 DEF Drawn, new
<1>2. SoundDrawing(Cleared(cr), pg)
  <2> DEFINE new == [cr EXCEPT !.path = NoPath]
  <2>1. cr \in Drawings
    BY DEF SoundDrawing
  <2>2. new \in Drawings /\ new.status = cr.status /\ new.g = cr.g /\ new.saves = cr.saves
    BY <2>1 DEF Drawings, NoPath
  <2> HIDE DEF new
  <2>3. SoundDrawing(Cairo(cr, new), pg)
    BY <2>2, CairoIsSound DEF SoundDrawing
  <2> QED
    BY <2>3 DEF Cleared, new
<1>3. SoundDrawing(Relative(cr, segments), pg)
  BY <1>1, BrokenIsSound DEF Relative
<1> QED
  BY <1>1, <1>2, <1>3

\* So do clip, the attributes, and the matrix, which then is the program's own.
LEMMA StateIsSound ==
    ASSUME NEW pg, NEW cr, SoundDrawing(cr, pg)
    PROVE  /\ SoundDrawing(Clipped(cr), pg)
           /\ \A arg : (arg = "unusable" => Gives(Moving)) => SoundDrawing(Moved(cr, arg), pg)
           /\ \A arg : (arg = "unusable" => Gives(Saying)) => SoundDrawing(Said(cr, arg), pg)
           /\ \A a \in Attributes, arg \in {"good", "other", "unusable", "pattern"} :
                  SoundDrawing(Set(cr, a, arg), pg)
<1>1. cr \in Drawings
  BY DEF SoundDrawing
<1>2. cr.g \in GraphicsState
  BY <1>1 DEF Drawings
<1>3. SoundDrawing(Clipped(cr), pg)
  <2> DEFINE new == [cr EXCEPT !.g.clip = TRUE, !.path = NoPath]
  <2>1. new.g \in GraphicsState /\ new.g.ctm = cr.g.ctm
    BY <1>1, <1>2 DEF Drawings, GraphicsState
  <2>2. new \in Drawings /\ new.status = cr.status /\ new.saves = cr.saves
    BY <1>1, <2>1 DEF Drawings, NoPath
  <2> HIDE DEF new
  <2>a. AtBaseline(new.g.ctm, pg)
    BY <2>1 DEF SoundDrawing, AtBaseline
  <2>3. SoundDrawing(Cairo(cr, new), pg)
    BY <2>2, <2>a, CairoIsSound DEF SoundDrawing
  <2> QED
    BY <2>3 DEF Clipped, new
<1>4. ASSUME NEW arg, arg = "unusable" => Gives(Moving) PROVE SoundDrawing(Moved(cr, arg), pg)
  <2> DEFINE new == [cr EXCEPT !.g.ctm.by = "program"]
  <2>1. new.g \in GraphicsState /\ new.g.ctm.by = "program"
    BY <1>1, <1>2 DEF Drawings, GraphicsState
  <2>2. new \in Drawings /\ new.status = cr.status /\ new.saves = cr.saves
    BY <1>1, <2>1 DEF Drawings
  <2> HIDE DEF new
  <2>a. AtBaseline(new.g.ctm, pg)
    BY <2>1 DEF SoundDrawing, AtBaseline
  <2>3. SoundDrawing(Cairo(cr, new), pg)
    BY <2>2, <2>a, CairoIsSound DEF SoundDrawing
  <2>4. Gives(Moving) => SoundDrawing(Broken(cr, "invalid matrix"), pg)
    BY BrokenIsSound
  <2> QED
    BY <1>4, <2>3, <2>4 DEF Moved, new
<1>6. ASSUME NEW arg, arg = "unusable" => Gives(Saying) PROVE SoundDrawing(Said(cr, arg), pg)
  BY <1>6, BrokenIsSound DEF Said
<1>5. ASSUME NEW a \in Attributes, NEW arg \in {"good", "other", "unusable", "pattern"}
      PROVE  SoundDrawing(Set(cr, a, arg), pg)
  <2> DEFINE new == [cr EXCEPT !.g.attr[a] = arg]
  <2>1. new.g \in GraphicsState /\ new.g.ctm = cr.g.ctm
    BY <1>1, <1>2 DEF Drawings, GraphicsState
  <2>2. new \in Drawings /\ new.status = cr.status /\ new.saves = cr.saves
    BY <1>1, <2>1 DEF Drawings
  <2> HIDE DEF new
  <2>a. AtBaseline(new.g.ctm, pg)
    BY <2>1 DEF SoundDrawing, AtBaseline
  <2>3. SoundDrawing(Cairo(cr, new), pg)
    BY <2>2, <2>a, CairoIsSound DEF SoundDrawing
  <2> QED
    BY <2>3 DEF Set, new
<1> QED
  BY <1>3, <1>4, <1>5, <1>6

-----------------------------------------------------------------------------
(* Contexts *)

SoundPage(pg) ==
    /\ pg \in Contexts /\ Len(pg.cr.saves) <= MaxSaves + Left(pg.cr)
    /\ Drawable(pg.cr) /\ Finished(pg)
    /\ pg.open => Based(pg)

LEMMA PageDraws ==
    ASSUME NEW pg, SoundPage(pg), pg.open
    PROVE  /\ SoundDrawing(pg.cr, pg)
           /\ \A cr : SoundDrawing(cr, pg) =>
                  /\ SoundPage([pg EXCEPT !.cr = cr])
                  /\ [pg EXCEPT !.cr = cr].refs = pg.refs /\ [pg EXCEPT !.cr = cr].open
<1>1. SoundDrawing(pg.cr, pg)
  <2>1. pg.cr \in Drawings
    BY DEF SoundPage, Contexts
  <2> QED
    BY <2>1 DEF SoundPage, SoundDrawing, Based
<1>2. ASSUME NEW cr, SoundDrawing(cr, pg)
      PROVE  /\ SoundPage([pg EXCEPT !.cr = cr])
             /\ [pg EXCEPT !.cr = cr].refs = pg.refs /\ [pg EXCEPT !.cr = cr].open
  <2> DEFINE new == [pg EXCEPT !.cr = cr]
  <2>1. /\ new \in Contexts /\ new.cr = cr /\ new.height = pg.height /\ new.scale = pg.scale
        /\ new.refs = pg.refs /\ new.open = pg.open /\ new.backend = pg.backend
        /\ new.finished = pg.finished
    BY <1>2 DEF SoundPage, SoundDrawing, Contexts
  <2> HIDE DEF new
  <2>2. Len(new.cr.saves) <= MaxSaves + Left(new.cr) /\ Drawable(new.cr)
    BY <1>2, <2>1 DEF SoundDrawing
  <2>3. Finished(new)
    BY <2>1 DEF Finished, is_image_surface, SoundPage
  <2>4. Based(new)
    BY <1>2, <2>1 DEF Based, AtBaseline, SoundDrawing
  <2>5. SoundPage(new) /\ new.refs = pg.refs /\ new.open
    BY <2>1, <2>2, <2>3, <2>4 DEF SoundPage
  <2> QED
    BY <2>5 DEF new
<1> QED
  BY <1>1, <1>2

LEMMA ContextIsSound ==
    ASSUME NEW b \in Backends, NEW h \in Sizes, NEW s \in Sizes, NEW n \in Nat
    PROVE  /\ SoundPage(Context(b, h, s, n))
           /\ Context(b, h, s, n).refs = n /\ Context(b, h, s, n).open
<1> DEFINE new == Context(b, h, s, n)
<1>1. /\ new.height = h /\ new.scale = s /\ new.refs = n /\ new.open = TRUE /\ new.finished = FALSE
      /\ new.cr = DrawingContext(h, s)
  BY DEF Context
<1>2. SoundDrawing(new.cr, new)
  BY <1>1, FreshDrawing
<1>3. new \in Contexts
  BY <1>2 DEF SoundDrawing, Context, Contexts
<1> HIDE DEF new
<1>4. Finished(new)
  BY <1>1 DEF Finished
<1>5. SoundPage(new)
  BY <1>2, <1>3, <1>4 DEF SoundPage, SoundDrawing, Based
<1> QED
  BY <1>1, <1>5 DEF new

\* A closed context keeps its count, and a file among them is finished.
LEMMA CloseIsSound ==
    ASSUME NEW pg, SoundPage(pg)
    PROVE  SoundPage(close(pg)) /\ close(pg).refs = pg.refs /\ ~close(pg).open
<1> DEFINE new == close(pg)
<1>1. SoundDrawing(DrawingContext(1, 1), [height |-> 1, scale |-> 1])
  BY FreshDrawing DEF Sizes
<1>2. pg.open \in BOOLEAN /\ pg.finished \in BOOLEAN
  BY DEF SoundPage, Contexts
<1>3. (pg.finished \/ (pg.open /\ ~is_image_surface(pg))) \in BOOLEAN
  OBVIOUS
<1>4. /\ new \in Contexts /\ new.cr = DrawingContext(1, 1) /\ new.refs = pg.refs /\ new.open = FALSE
      /\ new.backend = pg.backend
      /\ new.finished = (pg.finished \/ (pg.open /\ ~is_image_surface(pg)))
  <2>1. DrawingContext(1, 1) \in Drawings
    BY <1>1 DEF SoundDrawing
  <2> QED
    BY <1>3, <2>1 DEF close, SoundPage, Contexts
<1> HIDE DEF new
<1>5. Len(new.cr.saves) <= MaxSaves + Left(new.cr) /\ Drawable(new.cr)
  BY <1>1, <1>4 DEF SoundDrawing
<1>6. Finished(new)
  BY <1>2, <1>4 DEF Finished, is_image_surface, SoundPage
<1>7. SoundPage(new)
  BY <1>4, <1>5, <1>6 DEF SoundPage
<1> QED
  BY <1>4, <1>7 DEF new

LEMMA RecountIsSound ==
    ASSUME NEW pg, SoundPage(pg), NEW n \in Nat
    PROVE  /\ SoundPage([pg EXCEPT !.refs = n])
           /\ [pg EXCEPT !.refs = n].refs = n /\ [pg EXCEPT !.refs = n].open = pg.open
<1> DEFINE new == [pg EXCEPT !.refs = n]
<1>1. /\ new \in Contexts /\ new.cr = pg.cr /\ new.height = pg.height /\ new.scale = pg.scale
      /\ new.refs = n /\ new.open = pg.open /\ new.backend = pg.backend /\ new.finished = pg.finished
  BY DEF SoundPage, Contexts
<1> HIDE DEF new
<1>2. SoundPage(new)
  BY <1>1 DEF SoundPage, Finished, is_image_surface, Based, AtBaseline
<1> QED
  BY <1>1, <1>2 DEF new

\* The count goes up and down by one, and a context is closed with the last of
\* those that hold it and not before.
LEMMA ReferencesAreSound ==
    ASSUME NEW pg, SoundPage(pg)
    PROVE  /\ pg.refs \in Nat
           /\ SoundPage(add_reference(pg))
           /\ add_reference(pg).refs = pg.refs + 1 /\ add_reference(pg).open = pg.open
           /\ pg.refs > 0 => /\ SoundPage(remove_reference(pg))
                             /\ remove_reference(pg).refs = pg.refs - 1
           /\ pg.refs > 1 => remove_reference(pg).open = pg.open
<1>1. pg.refs \in Nat
  BY DEF SoundPage, Contexts
<1>2. SoundPage(add_reference(pg)) /\ add_reference(pg).refs = pg.refs + 1 /\ add_reference(pg).open = pg.open
  BY <1>1, RecountIsSound DEF add_reference
<1>3. ASSUME pg.refs > 0
      PROVE  /\ SoundPage(remove_reference(pg)) /\ remove_reference(pg).refs = pg.refs - 1
             /\ pg.refs > 1 => remove_reference(pg).open = pg.open
  <2> DEFINE less == [pg EXCEPT !.refs = @ - 1]
  <2>1. pg.refs - 1 \in Nat
    BY <1>1, <1>3
  <2>2. SoundPage(less) /\ less.refs = pg.refs - 1 /\ less.open = pg.open
    BY <2>1, RecountIsSound
  <2>3. remove_reference(pg) = IF pg.refs = 1 THEN close(less) ELSE less
    BY DEF remove_reference
  <2> HIDE DEF less
  <2> QED
    BY <1>1, <2>2, <2>3, CloseIsSound
<1> QED
  BY <1>1, <1>2, <1>3

-----------------------------------------------------------------------------
(* Counting: contexts, the current page and the program's tokens together   *)

Ok(ps, cur, hs) ==
    /\ ps \in [Page -> Contexts] /\ \A p \in Page : SoundPage(ps[p])
    /\ cur \in Page \cup {NoPage}
    /\ hs \in [Page -> Nat]
    /\ \A p \in Page : ps[p].refs = hs[p] + (IF cur = p THEN 1 ELSE 0)
    /\ cur # NoPage => ps[cur].open

\* A context changes, and keeps its count.
LEMMA ChangeIsOk ==
    ASSUME NEW ps, NEW cur, NEW hs, Ok(ps, cur, hs), NEW p \in Page,
           NEW new, SoundPage(new), new.refs = ps[p].refs, cur = p => new.open
    PROVE  Ok([ps EXCEPT ![p] = new], cur, hs)
<1>1. new \in Contexts
  BY DEF SoundPage
<1> QED
  BY <1>1, GraphicsAssumption DEF Ok

\* A token of the program goes.
LEMMA ReleaseIsOk ==
    ASSUME NEW ps, NEW cur, NEW hs, Ok(ps, cur, hs), NEW p \in Page, hs[p] > 0
    PROVE  Ok([ps EXCEPT ![p] = remove_reference(@)], cur, [hs EXCEPT ![p] = @ - 1])
<1> DEFINE new == remove_reference(ps[p])
<1>1. SoundPage(ps[p]) /\ hs[p] \in Nat /\ ps[p].refs = hs[p] + (IF cur = p THEN 1 ELSE 0)
  BY DEF Ok
<1>2. ps[p].refs > 0 /\ (cur = p => ps[p].refs > 1)
  BY <1>1
<1>3. SoundPage(new) /\ new.refs = ps[p].refs - 1 /\ (ps[p].refs > 1 => new.open = ps[p].open)
  BY <1>1, <1>2, ReferencesAreSound
<1>4. new \in Contexts
  BY <1>3 DEF SoundPage
<1>5. hs[p] - 1 \in Nat
  BY <1>1
<1> HIDE DEF new
<1>6. Ok([ps EXCEPT ![p] = new], cur, [hs EXCEPT ![p] = hs[p] - 1])
  BY <1>1, <1>2, <1>3, <1>4, <1>5, GraphicsAssumption DEF Ok
<1> QED
  BY <1>6 DEF new

\* A token of the program comes.
LEMMA AcquireIsOk ==
    ASSUME NEW ps, NEW cur, NEW hs, Ok(ps, cur, hs), NEW p \in Page
    PROVE  Ok([ps EXCEPT ![p] = add_reference(@)], cur, [hs EXCEPT ![p] = @ + 1])
<1> DEFINE new == add_reference(ps[p])
<1>1. SoundPage(ps[p]) /\ hs[p] \in Nat /\ ps[p].refs = hs[p] + (IF cur = p THEN 1 ELSE 0)
  BY DEF Ok
<1>2. SoundPage(new) /\ new.refs = ps[p].refs + 1 /\ new.open = ps[p].open
  BY <1>1, ReferencesAreSound
<1>3. new \in Contexts
  BY <1>2 DEF SoundPage
<1> HIDE DEF new
<1>4. Ok([ps EXCEPT ![p] = new], cur, [hs EXCEPT ![p] = hs[p] + 1])
  BY <1>1, <1>2, <1>3, GraphicsAssumption DEF Ok
<1> QED
  BY <1>4 DEF new

\* A new context, in a place that nobody holds.
LEMMA PlaceIsOk ==
    ASSUME NEW ps, NEW cur, NEW hs, Ok(ps, cur, hs), NEW p \in Page, ps[p].refs = 0,
           NEW new, SoundPage(new), new.refs = 1
    PROVE  Ok([ps EXCEPT ![p] = new], cur, [hs EXCEPT ![p] = 1])
<1>1. hs[p] \in Nat /\ ps[p].refs = hs[p] + (IF cur = p THEN 1 ELSE 0)
  BY DEF Ok
<1>2. cur # p
  BY <1>1
<1>3. new \in Contexts
  BY DEF SoundPage
<1> QED
  BY <1>2, <1>3, GraphicsAssumption DEF Ok

\* set_current_page, of an open page.
LEMMA SetCurrentIsOk ==
    ASSUME NEW ps, NEW hs, Ok(ps, current, hs), NEW p \in Page, ps[p].open
    PROVE  Ok(SetCurrent(ps, p), p, hs)
<1> DEFINE taken == [ps EXCEPT ![p] = add_reference(@)]
<1>1. \A q \in Page : SoundPage(ps[q]) /\ ps[q].refs \in Nat /\ hs[q] \in Nat
                      /\ ps[q].refs = hs[q] + (IF current = q THEN 1 ELSE 0)
  BY ReferencesAreSound DEF Ok
<1>2. SoundPage(add_reference(ps[p])) /\ add_reference(ps[p]).refs = ps[p].refs + 1 /\ add_reference(ps[p]).open
  BY <1>1, ReferencesAreSound
<1>3. add_reference(ps[p]) \in Contexts
  BY <1>2 DEF SoundPage
<1>4. /\ taken \in [Page -> Contexts]
      /\ \A q \in Page : SoundPage(taken[q]) /\ taken[q].refs = hs[q] + (IF current = q THEN 1 ELSE 0)
                                                                   + (IF p = q THEN 1 ELSE 0)
      /\ taken[p].open
  BY <1>1, <1>2, <1>3 DEF Ok
<1>5. hs \in [Page -> Nat] /\ current \in Page \cup {NoPage}
  BY DEF Ok
<1>6. SetCurrent(ps, p) = IF current = NoPage THEN taken ELSE [taken EXCEPT ![current] = remove_reference(@)]
  BY DEF SetCurrent
<1> HIDE DEF taken
<1>7. CASE current = NoPage
  BY <1>1, <1>4, <1>5, <1>6, <1>7, GraphicsAssumption DEF Ok
<1>8. CASE current # NoPage
  <2> DEFINE new == remove_reference(taken[current])
  <2>1. SoundPage(taken[current]) /\ taken[current].refs > 0 /\ (current = p => taken[current].refs > 1)
    BY <1>1, <1>4, <1>5, <1>8
  <2>2. SoundPage(new) /\ new.refs = taken[current].refs - 1 /\ (current = p => new.open = taken[current].open)
    BY <2>1, ReferencesAreSound
  <2>3. new \in Contexts
    BY <2>2 DEF SoundPage
  <2> HIDE DEF new
  <2>4. Ok([taken EXCEPT ![current] = new], p, hs)
    BY <1>1, <1>4, <1>5, <1>8, <2>2, <2>3 DEF Ok
  <2> QED
    BY <1>6, <1>8, <2>4 DEF new
<1> QED
  BY <1>7, <1>8

\* closepage, which gives up the slot when it holds the page.
LEMMA CloseIsOk ==
    ASSUME NEW ps, NEW cur, NEW hs, Ok(ps, cur, hs), NEW p \in Page
    PROVE  LET closed == [ps EXCEPT ![p] = close(@)]
               cleared == IF cur = p THEN [closed EXCEPT ![p] = remove_reference(@)] ELSE closed
           IN  Ok(cleared, IF cur = p THEN NoPage ELSE cur, hs)
<1> DEFINE closed == [ps EXCEPT ![p] = close(@)]
<1>1. SoundPage(ps[p]) /\ hs[p] \in Nat /\ ps[p].refs = hs[p] + (IF cur = p THEN 1 ELSE 0)
  BY DEF Ok
<1>2. SoundPage(close(ps[p])) /\ close(ps[p]).refs = ps[p].refs
  BY <1>1, CloseIsSound
<1>3. CASE cur # p
  BY <1>2, <1>3, ChangeIsOk
<1>4. CASE cur = p
  <2> DEFINE new == remove_reference(close(ps[p]))
  <2>1. SoundPage(new) /\ new.refs = ps[p].refs - 1
    BY <1>1, <1>2, <1>4, ReferencesAreSound
  <2>2. [closed EXCEPT ![p] = remove_reference(@)] = [ps EXCEPT ![p] = new]
    BY DEF Ok
  <2>3. new \in Contexts
    BY <2>1 DEF SoundPage
  <2> HIDE DEF new
  <2>4. Ok([ps EXCEPT ![p] = new], NoPage, hs)
    BY <1>1, <1>4, <2>1, <2>3, GraphicsAssumption DEF Ok
  <2> QED
    BY <1>4, <2>2, <2>4
<1> QED
  BY <1>3, <1>4

-----------------------------------------------------------------------------
(* The inductive invariant: what the properties say of one context, and the  *)
(* counts of all of them.                                                   *)

IInv == theme \in Themes /\ Ok(pages, current, held)

LEMMA InvariantSaysAll ==
    ASSUME IInv
    PROVE  TypeOK /\ HandlesAreCounted /\ FilesAreFinished /\ StaysDrawable /\ BaselineIsKept
BY DEF IInv, Ok, SoundPage, TypeOK, HandlesAreCounted, FilesAreFinished, StaysDrawable, BaselineIsKept

LEMMA InitIsOk ==
    ASSUME Init PROVE IInv
<1> DEFINE used == Context("offscreen", 1, 1, 0)
<1>1. SoundPage(used) /\ used.refs = 0 /\ used.backend = "offscreen"
  BY ContextIsSound DEF Sizes, Backends, Context
<1>2. /\ Unused \in Contexts /\ Unused.cr = used.cr /\ Unused.refs = 0 /\ Unused.open = FALSE
      /\ Unused.backend = "offscreen"
  BY <1>1 DEF Unused, SoundPage, Contexts
<1>3. SoundPage(Unused)
  BY <1>1, <1>2 DEF SoundPage, Finished, is_image_surface
<1> QED
  BY <1>2, <1>3, GraphicsAssumption DEF Init, IInv, Ok

Idle == UNCHANGED <<pages, current, held>>
Draws == HasPage /\ \E cr : SoundDrawing(cr, pages[current]) /\ Draw(cr)

LEMMA RaisesAreIdle ==
    /\ \A error : Raise(error) => Idle
    /\ NoCurrentPage => Idle
    /\ Answers => Idle
BY DEF Raise, NoCurrentPage, Answers, Idle

LEMMA IdleIsOk ==
    ASSUME IInv, Idle
    PROVE  Ok(pages', current', held')
BY DEF IInv, Idle

LEMMA PageIsThere ==
    ASSUME IInv, HasPage
    PROVE  /\ current \in Page /\ SoundPage(pages[current]) /\ pages[current].open
           /\ pages[current] \in Contexts
           /\ SoundDrawing(present_cr, pages[current])
<1>1. current \in Page /\ SoundPage(pages[current]) /\ pages[current].open
  BY DEF IInv, Ok, HasPage
<1> QED
  BY <1>1, PageDraws DEF present_cr, SoundPage

LEMMA DrawsIsOk ==
    ASSUME IInv, Draws
    PROVE  Ok(pages', current', held')
<1>1. PICK cr : SoundDrawing(cr, pages[current]) /\ Draw(cr)
  BY DEF Draws
<1>2. current \in Page /\ SoundPage(pages[current]) /\ pages[current].open
  BY PageIsThere DEF Draws
<1> DEFINE new == [pages[current] EXCEPT !.cr = cr]
<1>3. SoundPage(new) /\ new.refs = pages[current].refs /\ new.open
  BY <1>1, <1>2, PageDraws
<1>4. pages' = [pages EXCEPT ![current] = new] /\ current' = current /\ held' = held
  BY <1>1 DEF Draw
<1>5. Ok(pages, current, held)
  BY DEF IInv
<1> HIDE DEF new
<1>6. Ok([pages EXCEPT ![current] = new], current, held)
  BY <1>2, <1>3, <1>5, ChangeIsOk
<1> QED
  BY <1>4, <1>6

-----------------------------------------------------------------------------
(* The commands that hold and hand on contexts                              *)

LEMMA OpenIsOk ==
    ASSUME IInv, NEW c, IsCommand(c), theme.room \subseteq Page, Open(c)
    PROVE  Ok(pages', current', held')
<1>1. CASE Raise("RangeCheckError") \/ Raise("GraphicsBackendError")
  BY <1>1, RaisesAreIdle, IdleIsOk
<1>2. CASE ~(Raise("RangeCheckError") \/ Raise("GraphicsBackendError"))
  <2> DEFINE scale == IF c.op = "newhidpioffscreen" THEN 2 ELSE 1
             new == Context(BackendOf[c.op], Heights[c.arg], scale, 1)
  <2>1. c.op \in DOMAIN BackendOf /\ c.arg # "bad"
    BY <1>2 DEF Open
  <2>2. PICK p \in Fresh : /\ pages' = SetCurrent([pages EXCEPT ![p] = new], p)
                           /\ held' = [held EXCEPT ![p] = 1]
                           /\ current' = p
    BY <1>2 DEF Open
  <2>3. c.arg \in {"good", "other"}
    BY <2>1 DEF IsCommand, Moving, Saying, BackendOf
  <2>4. BackendOf[c.op] \in Backends /\ Heights[c.arg] \in Sizes /\ scale \in Sizes
    BY <2>1, <2>3 DEF BackendOf, Backends, Heights, Sizes
  <2>5. SoundPage(new) /\ new.refs = 1 /\ new.open
    BY <2>4, ContextIsSound
  <2>6. p \in Page /\ pages[p].refs = 0
    BY <2>2 DEF Fresh
  <2> HIDE DEF new
  <2>7. Ok(pages, current, held) /\ pages \in [Page -> Contexts]
    BY DEF IInv, Ok
  <2>8. Ok([pages EXCEPT ![p] = new], current, [held EXCEPT ![p] = 1])
    BY <2>5, <2>6, <2>7, PlaceIsOk
  <2>9. Ok(SetCurrent([pages EXCEPT ![p] = new], p), p, [held EXCEPT ![p] = 1])
    BY <2>5, <2>6, <2>7, <2>8, SetCurrentIsOk
  <2> QED
    BY <2>2, <2>9
<1> QED
  BY <1>1, <1>2

\* loadpng, and the handle that a saved state gives back.
LEMMA PlacingIsOk ==
    ASSUME IInv, NEW c, theme.room \subseteq Page, loadpng(c) \/ deserialize(c)
    PROVE  Ok(pages', current', held')
<1>1. CASE Raise("LoadPngError")
  BY <1>1, RaisesAreIdle, IdleIsOk
<1>2. CASE ~Raise("LoadPngError")
  <2> DEFINE new == Context("offscreen", 1, 1, 1)
  <2>1. SoundPage(new) /\ new.refs = 1
    BY ContextIsSound DEF Backends, Sizes
  <2>2. SoundPage(close(new)) /\ close(new).refs = 1
    BY <2>1, CloseIsSound
  <2>3. PICK p \in Fresh : /\ \/ pages' = [pages EXCEPT ![p] = new]
                              \/ pages' = [pages EXCEPT ![p] = close(new)]
                           /\ held' = [held EXCEPT ![p] = 1]
                           /\ current' = current
    BY <1>2 DEF loadpng, deserialize
  <2>4. p \in Page /\ pages[p].refs = 0
    BY <2>3 DEF Fresh
  <2>5. Ok(pages, current, held)
    BY DEF IInv
  <2> HIDE DEF new
  <2>6. Ok([pages EXCEPT ![p] = new], current, [held EXCEPT ![p] = 1])
    BY <2>1, <2>4, <2>5, PlaceIsOk
  <2>7. Ok([pages EXCEPT ![p] = close(new)], current, [held EXCEPT ![p] = 1])
    BY <2>2, <2>4, <2>5, PlaceIsOk
  <2> QED
    BY <2>3, <2>6, <2>7
<1> QED
  BY <1>1, <1>2

LEMMA setpageIsOk ==
    ASSUME IInv, NEW c, IsCommand(c), c.page # NoPage => held[c.page] > 0, setpage(c)
    PROVE  Ok(pages', current', held')
<1>1. CASE c.page = NoPage \/ ~pages[c.page].open
  BY <1>1, RaisesAreIdle, IdleIsOk DEF setpage
<1>2. CASE ~(c.page = NoPage \/ ~pages[c.page].open)
  <2>1. c.page \in Page /\ pages[c.page].open /\ held[c.page] > 0
    BY <1>2 DEF IsCommand
  <2>2. Ok(SetCurrent(pages, c.page), c.page, held)
    BY <2>1, SetCurrentIsOk DEF IInv
  <2>3. Ok([SetCurrent(pages, c.page) EXCEPT ![c.page] = remove_reference(@)], c.page,
           [held EXCEPT ![c.page] = @ - 1])
    BY <2>1, <2>2, ReleaseIsOk
  <2> QED
    BY <1>2, <2>3 DEF setpage
<1> QED
  BY <1>1, <1>2

LEMMA drawimageIsOk ==
    ASSUME IInv, NEW c \in theme.commands, IsCommand(c), c.page # NoPage => held[c.page] > 0, drawimage(c)
    PROVE  Ok(pages', current', held')
<1> DEFINE drawn == [pages EXCEPT ![current].cr = cairo_restore(Moved(cairo_save(@), c.arg))]
<1>1. \/ Idle
      \/ /\ c.page # NoPage /\ HasPage
         /\ pages' = [drawn EXCEPT ![c.page] = remove_reference(@)]
         /\ held' = [held EXCEPT ![c.page] = @ - 1]
         /\ current' = current
  BY RaisesAreIdle DEF drawimage
<1>2. CASE Idle
  BY <1>2, IdleIsOk
<1>3. CASE ~Idle
  <2> DEFINE did == Moved(cairo_save(pages[current].cr), c.arg)
             new == [pages[current] EXCEPT !.cr = cairo_restore(did)]
  <2>1. /\ current \in Page /\ SoundPage(pages[current]) /\ pages[current].open
        /\ SoundDrawing(pages[current].cr, pages[current])
    BY <1>1, <1>3, PageIsThere DEF present_cr
  <2>a. did \in Between(cairo_save(pages[current].cr))
    <3>1. c.arg = "unusable" => Gives(Moving)
      BY UnusableIsGiven DEF drawimage, Moving
    <3> QED
      BY <3>1 DEF Between, IsCommand
  <2>2. SoundDrawing(cairo_restore(did), pages[current])
    <3> HIDE DEF did
    <3> QED BY <2>1, <2>a, SaveRestoreIsNothing
  <2>3. SoundPage(new) /\ new.refs = pages[current].refs /\ new.open
    <3> HIDE DEF did
    <3> QED BY <2>1, <2>2, PageDraws
  <2>4. drawn = [pages EXCEPT ![current] = new]
    OBVIOUS
  <2> HIDE DEF new, drawn
  <2>5. Ok(drawn, current, held)
    BY <2>1, <2>3, <2>4, ChangeIsOk DEF IInv
  <2>6. c.page \in Page /\ held[c.page] > 0
    BY <1>1, <1>3 DEF IsCommand
  <2>7. Ok([drawn EXCEPT ![c.page] = remove_reference(@)], current, [held EXCEPT ![c.page] = @ - 1])
    BY <2>5, <2>6, ReleaseIsOk
  <2> QED
    BY <1>1, <1>3, <2>7
<1> QED
  BY <1>2, <1>3

LEMMA closepageIsOk ==
    ASSUME IInv, NEW c, IsCommand(c), c.page # NoPage => held[c.page] > 0, closepage(c)
    PROVE  Ok(pages', current', held')
<1>1. CASE c.page = NoPage
  BY <1>1, IdleIsOk DEF closepage, Idle
<1>2. CASE c.page # NoPage
  <2> DEFINE closed == [pages EXCEPT ![c.page] = close(@)]
             cleared == IF current = c.page THEN [closed EXCEPT ![c.page] = remove_reference(@)] ELSE closed
             next == IF current = c.page THEN NoPage ELSE current
  <2>1. c.page \in Page /\ held[c.page] > 0
    BY <1>2 DEF IsCommand
  <2>2. Ok(cleared, next, held)
    BY <2>1, CloseIsOk DEF IInv
  <2>3. /\ pages' = [cleared EXCEPT ![c.page] = remove_reference(@)]
        /\ held' = [held EXCEPT ![c.page] = @ - 1]
        /\ current' = next
    BY <1>2 DEF closepage
  <2> HIDE DEF cleared, next
  <2>4. Ok([cleared EXCEPT ![c.page] = remove_reference(@)], next, [held EXCEPT ![c.page] = @ - 1])
    BY <2>1, <2>2, ReleaseIsOk
  <2> QED
    BY <2>3, <2>4
<1> QED
  BY <1>1, <1>2

\* currentpage and the copies that a program makes take a token, pop and
\* writepng give one up.
LEMMA TokensAreOk ==
    ASSUME IInv, NEW c, IsCommand(c), c.page # NoPage => held[c.page] > 0,
           currentpage(c) \/ Copy(c) \/ Discard(c) \/ writepng(c)
    PROVE  Ok(pages', current', held')
<1>1. Ok(pages, current, held)
  BY DEF IInv
<1>2. CASE currentpage(c)
  <2>1. CASE NoCurrentPage
    BY <2>1, RaisesAreIdle, IdleIsOk
  <2>2. CASE ~NoCurrentPage
    <3>1. current \in Page
      BY <1>2, <2>2, PageIsThere DEF currentpage
    <3>2. Ok([pages EXCEPT ![current] = add_reference(@)], current, [held EXCEPT ![current] = @ + 1])
      BY <1>1, <3>1, AcquireIsOk
    <3> QED
      BY <1>2, <2>2, <3>2 DEF currentpage
  <2> QED
    BY <2>1, <2>2
<1>3. CASE Copy(c)
  <2>1. c.page \in Page
    BY <1>3 DEF Copy, IsCommand
  <2>2. Ok([pages EXCEPT ![c.page] = add_reference(@)], current, [held EXCEPT ![c.page] = @ + 1])
    BY <1>1, <2>1, AcquireIsOk
  <2> QED
    BY <1>3, <2>2 DEF Copy
<1>4. ASSUME c.page # NoPage
      PROVE  Ok([pages EXCEPT ![c.page] = remove_reference(@)], current, [held EXCEPT ![c.page] = @ - 1])
  BY <1>1, <1>4, ReleaseIsOk DEF IsCommand
<1>5. CASE Discard(c)
  BY <1>4, <1>5 DEF Discard
<1>6. CASE writepng(c)
  <2>1. \/ Idle
        \/ /\ c.page # NoPage
           /\ pages' = [pages EXCEPT ![c.page] = remove_reference(@)]
           /\ held' = [held EXCEPT ![c.page] = @ - 1] /\ current' = current
    BY <1>6, RaisesAreIdle DEF writepng
  <2> QED
    BY <1>4, <2>1, IdleIsOk
<1> QED
  BY <1>2, <1>3, <1>5, <1>6

-----------------------------------------------------------------------------
(* The commands that draw: each does nothing, or makes one of the calls     *)
(* above on the current page.                                               *)

LEMMA PathCommands ==
    ASSUME IInv, NEW c \in theme.commands, IsCommand(c),
           \/ Construct(c) \/ arct(c) \/ Rounds(c) \/ Clip(c) \/ PathQueries(c) \/ flattenpath(c)
           \/ pathforall(c) \/ show(c) \/ charpath(c) \/ Paint(c)
    PROVE  Idle \/ Draws
<1>1. ASSUME HasPage, NEW cr, SoundDrawing(cr, pages[current]), Draw(cr) PROVE Draws
  BY <1>1 DEF Draws
<1> DEFINE pg == pages[current]
<1>2. CASE ~HasPage
  BY <1>2, RaisesAreIdle DEF Construct, arct, Rounds, Clip, PathQueries, flattenpath, pathforall, show, charpath, Paint
<1>3. CASE HasPage
  <2>1. SoundDrawing(present_cr, pg) /\ pg \in Contexts
    BY <1>3, PageIsThere
  <2>2. present_cr.path.segments \in SUBSET Pieces
    BY <2>1 DEF Contexts, Drawings, Pieces, present_cr
  <2>3. \A segments \in SUBSET Pieces :
            /\ SoundDrawing(Drawn(present_cr, segments), pg)
            /\ SoundDrawing(Relative(present_cr, segments), pg)
            /\ SoundDrawing(Cleared(present_cr), pg)
            /\ SoundDrawing(Drawn(Cleared(present_cr), segments), pg)
            /\ \A did \in Between(cairo_save(present_cr)) :
                   SoundDrawing(Drawn(cairo_restore(did), segments), pg)
    BY <2>1, PathIsSound, SaveRestoreIsNothing
  <2>a. cairo_save(present_cr) \in Between(cairo_save(present_cr))
    BY DEF Between
  <2>b. c.op \in Saying => Said(cairo_save(present_cr), c.arg) \in Between(cairo_save(present_cr))
    BY UnusableIsGiven DEF Between, IsCommand
  <2>4. /\ {} \in SUBSET Pieces /\ {"line"} \in SUBSET Pieces /\ {"curve"} \in SUBSET Pieces
        /\ {"close"} \in SUBSET Pieces /\ {"line", "close"} \in SUBSET Pieces
        /\ {"line", "curve"} \in SUBSET Pieces /\ {"curve", "close"} \in SUBSET Pieces
    BY DEF Pieces
  <2>5. CASE Construct(c)
    <3>1. /\ SoundDrawing(Cleared(present_cr), pg)
          /\ SoundDrawing(IF present_cr.path.point THEN Drawn(present_cr, {"close"}) ELSE present_cr, pg)
          /\ SoundDrawing(Drawn(present_cr, {}), pg)
          /\ SoundDrawing(Drawn(present_cr, IF present_cr.path.point THEN {"line"} ELSE {}), pg)
          /\ SoundDrawing(Relative(present_cr, {}), pg)
          /\ SoundDrawing(Relative(present_cr, {"line"}), pg)
          /\ SoundDrawing(Relative(present_cr, {"curve"}), pg)
          /\ SoundDrawing(Drawn(present_cr, {"curve"}), pg)
          /\ SoundDrawing(Drawn(present_cr, {"line", "close"}), pg)
      BY <2>1, <2>3, <2>4
    <3>2. c.op \in {"translate", "scale", "rotate"} => SoundDrawing(Moved(present_cr, c.arg), pg)
      BY <2>1, StateIsSound, UnusableIsGiven DEF Moving
    <3> QED
      BY <1>1, <1>3, <2>5, <3>1, <3>2, RaisesAreIdle DEF Construct
  <2>6. CASE arct(c)
    <3>1. SoundDrawing(Drawn(present_cr, IF c.arg = "other" THEN {"line"} ELSE {"line", "curve"}), pg)
      BY <2>3, <2>4
    <3> QED
      BY <1>1, <1>3, <2>6, <3>1, RaisesAreIdle DEF arct
  <2>7. CASE Rounds(c)
    <3>1. SoundDrawing(Drawn(present_cr, IF c.op = "circle" THEN {"curve", "close"} ELSE {"curve"}), pg)
      BY <2>3, <2>4
    <3> QED
      BY <1>1, <1>3, <2>7, <3>1, RaisesAreIdle DEF Rounds
  <2>8. CASE Clip(c)
    BY <1>1, <1>3, <2>1, <2>8, StateIsSound, RaisesAreIdle DEF Clip
  <2>9. CASE PathQueries(c)
    <3>1. SoundDrawing(Drawn(Cleared(present_cr), {"line", "close"}), pg)
      BY <2>3, <2>4
    <3> QED
      BY <1>1, <1>3, <2>9, <3>1, RaisesAreIdle DEF PathQueries
  <2>10. CASE flattenpath(c)
    <3>1. Flat(present_cr.path.segments) \in SUBSET Pieces
      BY <2>2 DEF Flat, Pieces
    <3>2. SoundDrawing(Drawn(Cleared(present_cr), Flat(present_cr.path.segments)), pg)
      BY <2>3, <3>1
    <3> QED
      BY <1>1, <1>3, <2>10, <3>2, RaisesAreIdle DEF flattenpath
  <2>11. CASE pathforall(c)
    BY <2>11, RaisesAreIdle DEF pathforall
  <2>12. CASE show(c)
    <3>1. SoundDrawing(Drawn(cairo_restore(Said(cairo_save(present_cr), c.arg)), {}), pg)
      BY <2>3, <2>4, <2>12, <2>b DEF show, Saying
    <3> QED
      BY <1>1, <1>3, <2>12, <3>1, RaisesAreIdle DEF show
  <2>13. CASE charpath(c)
    <3>1. SoundDrawing(Drawn(cairo_restore(Said(cairo_save(present_cr), c.arg)), {"curve", "close"}), pg)
      BY <2>3, <2>4, <2>13, <2>b DEF charpath, Saying
    <3> QED
      BY <1>1, <1>3, <2>13, <3>1, RaisesAreIdle DEF charpath
  <2>14. CASE Paint(c)
    <3>1. SoundDrawing(IF c.op \in {"stroke", "fill"} THEN Cleared(present_cr)
                       ELSE cairo_restore(cairo_save(present_cr)), pg)
      BY <2>1, <2>3, <2>4, <2>a, SaveRestoreIsNothing
    <3> QED
      BY <1>1, <1>3, <2>14, <3>1, RaisesAreIdle DEF Paint
  <2> QED
    BY <2>5, <2>6, <2>7, <2>8, <2>9, <2>10, <2>11, <2>12, <2>13, <2>14
<1> QED
  BY <1>2, <1>3

\* Of initmatrix: the baseline of the page, without its device scale.
LEMMA InitmatrixIsSound ==
    ASSUME NEW pg \in Contexts, NEW cr, SoundDrawing(cr, pg)
    PROVE  SoundDrawing(Cairo(cr, [cr EXCEPT !.g.ctm = Reset(pg.height)]), pg)
<1> DEFINE new == [cr EXCEPT !.g.ctm = Reset(pg.height)]
<1>1. cr \in Drawings
  BY DEF SoundDrawing
<1>2. cr.g \in GraphicsState /\ pg.height \in Sizes
  BY <1>1 DEF Drawings, Contexts
<1>3. Reset(pg.height) \in [height : Sizes, scale : Sizes, by : {"page", "initmatrix", "program"}]
  BY <1>2 DEF Reset, Sizes
<1>4. new.g \in GraphicsState /\ new.g.ctm = Reset(pg.height)
  BY <1>1, <1>2, <1>3 DEF Drawings, GraphicsState
<1>5. new \in Drawings /\ new.status = cr.status /\ new.saves = cr.saves
  BY <1>1, <1>4 DEF Drawings
<1> HIDE DEF new
<1>6. AtBaseline(new.g.ctm, pg)
  BY <1>4 DEF AtBaseline, Reset
<1>7. SoundDrawing(Cairo(cr, new), pg)
  BY <1>5, <1>6, CairoIsSound DEF SoundDrawing
<1> QED
  BY <1>7 DEF new

LEMMA StateCommands ==
    ASSUME IInv, NEW c \in theme.commands, IsCommand(c),
           \/ NewPattern(c) \/ addcolorstop(c) \/ setpattern(c) \/ Colors(c) \/ Lines(c) \/ SaveRestore(c)
           \/ Matrices(c) \/ Options(c) \/ setoperator(c)
    PROVE  Idle \/ Draws
<1>1. ASSUME HasPage, NEW cr, SoundDrawing(cr, pages[current]), Draw(cr) PROVE Draws
  BY <1>1 DEF Draws
<1> DEFINE pg == pages[current]
<1>2. CASE ~HasPage
  BY <1>2, RaisesAreIdle DEF NewPattern, addcolorstop, setpattern, Colors, Lines, SaveRestore, Matrices, Options, setoperator
<1>3. CASE HasPage
  <2>1. SoundDrawing(present_cr, pg) /\ pg \in Contexts
    BY <1>3, PageIsThere
  <2>2. ASSUME NEW a \in Attributes, c.arg # "bad" PROVE SoundDrawing(Set(present_cr, a, c.arg), pg)
    BY <2>1, <2>2, StateIsSound DEF IsCommand
  <2>3. CASE NewPattern(c) \/ addcolorstop(c)
    BY <2>3, RaisesAreIdle DEF NewPattern, addcolorstop
  <2>4. CASE setpattern(c)
    <3>1. SoundDrawing(Set(present_cr, "source", "pattern"), pg)
      BY <2>1, StateIsSound DEF Attributes
    <3> QED
      BY <1>1, <1>3, <2>4, <3>1, RaisesAreIdle DEF setpattern
  <2>5. CASE Colors(c)
    <3>1. CASE c.arg = "bad"
      <4>1. c.op \in {"setrgbcolor", "setrgbacolor"}
        BY <2>5, <3>1 DEF Colors, ColorSetters, IsCommand, Checking, BackendOf
      <4> QED
        BY <2>5, <3>1, <4>1, RaisesAreIdle DEF Colors
    <3>2. CASE c.arg # "bad"
      <4>1. SoundDrawing(Set(present_cr, "source", c.arg), pg) /\ SoundDrawing(Set(present_cr, "width", c.arg), pg)
        BY <2>2, <3>2 DEF Attributes
      <4> QED
        BY <1>1, <1>3, <2>5, <3>2, <4>1, RaisesAreIdle DEF Colors
    <3> QED
      BY <3>1, <3>2
  <2>6. CASE Lines(c)
    <3>1. c.op \in DOMAIN LineAttribute /\ LineAttribute[c.op] \in Attributes
      BY <2>6 DEF Lines, LineAttribute, Attributes
    <3>2. c.arg = "bad" => c.op # "setmiterlimit"
      BY DEF IsCommand, Checking, BackendOf
    <3>3. CASE c.arg = "bad"
      BY <1>3, <2>6, <3>2, <3>3, RaisesAreIdle DEF Lines
    <3>4. CASE c.arg # "bad"
      <4>1. SoundDrawing(Set(present_cr, LineAttribute[c.op], c.arg), pg)
        BY <2>2, <3>1, <3>4
      <4> QED
        BY <1>1, <1>3, <2>6, <3>4, <4>1, RaisesAreIdle DEF Lines
    <3> QED
      BY <3>3, <3>4
  <2>7. CASE SaveRestore(c)
    <3>1. CASE c.op = "gsave"
      <4>1. Len(present_cr.saves) < MaxSaves
        BY <1>3, <2>7, <3>1 DEF SaveRestore, NoCurrentPage
      <4>2. SoundDrawing(cairo_save(present_cr), pg)
        BY <2>1, <4>1, SaveIsSound
      <4> QED
        BY <1>1, <1>3, <2>7, <3>1, <4>2, RaisesAreIdle DEF SaveRestore
    <3>2. CASE c.op # "gsave"
      BY <1>1, <1>3, <2>1, <2>7, <3>2, RestoreIsSound, RaisesAreIdle DEF SaveRestore
    <3> QED
      BY <3>1, <3>2
  <2>8. CASE Matrices(c)
    <3>1. c.op \in {"setmatrix", "concat"} => SoundDrawing(Moved(present_cr, c.arg), pg)
      BY <2>1, StateIsSound, UnusableIsGiven DEF Moving
    <3>2. SoundDrawing(Cairo(present_cr, [present_cr EXCEPT !.g.ctm = Reset(pg.height)]), pg)
      BY <2>1, InitmatrixIsSound
    <3> QED
      BY <1>1, <1>3, <2>8, <3>1, <3>2, RaisesAreIdle DEF Matrices
  <2>9. CASE Options(c)
    <3>1. Named[c.op] \in Attributes
      BY <2>9 DEF Options, Named, Attributes
    <3>2. c.arg # "bad" => SoundDrawing(Set(present_cr, Named[c.op], c.arg), pg)
      BY <2>2, <3>1
    <3> QED
      BY <1>1, <1>3, <2>9, <3>2, RaisesAreIdle DEF Options
  <2>10. CASE setoperator(c)
    <3>1. c.arg # "bad" => SoundDrawing(Set(present_cr, "operator", c.arg), pg)
      BY <2>2 DEF Attributes
    <3> QED
      BY <1>1, <1>3, <2>10, <3>1, RaisesAreIdle DEF setoperator
  <2> QED
    BY <2>3, <2>4, <2>5, <2>6, <2>7, <2>8, <2>9, <2>10
<1> QED
  BY <1>2, <1>3

LEMMA Questions ==
    ASSUME NEW c,
           \/ Transformed(c) \/ Queries(c) \/ CurrentFont(c) \/ Fonts(c) \/ listfonts(c)
           \/ OptionQueries(c)
    PROVE  Idle
BY RaisesAreIdle DEF Transformed, Queries, CurrentFont, Fonts, listfonts, OptionQueries

\* To measure a text is to have Cairo read it.
LEMMA MeasuresIsOk ==
    ASSUME IInv, NEW c \in theme.commands, IsCommand(c), Measures(c)
    PROVE  Idle \/ Draws
<1>1. CASE NoCurrentPage
  BY <1>1, RaisesAreIdle
<1>2. CASE ~NoCurrentPage
  <2>1. HasPage /\ Draw(Said(present_cr, c.arg))
    BY <1>2 DEF Measures
  <2>2. c.arg = "unusable" => Gives(Saying)
    BY UnusableIsGiven DEF Measures, IsCommand, Moving, Saying
  <2>3. SoundDrawing(Said(present_cr, c.arg), pages[current])
    BY <2>1, <2>2, PageIsThere, StateIsSound
  <2> QED
    BY <2>1, <2>3 DEF Draws
<1> QED
  BY <1>1, <1>2

\* setfont also notes the font; a window is resized or dismissed.
LEMMA setfontIsOk ==
    ASSUME IInv, NEW c \in theme.commands, IsCommand(c), setfont(c)
    PROVE  Ok(pages', current', held')
<1>1. CASE Idle
  BY <1>1, IdleIsOk
<1>2. CASE ~Idle
  <2>1. /\ HasPage /\ c.arg # "bad"
        /\ pages' = [pages EXCEPT ![current].cr = Set(Said(@, c.arg), "font", c.arg)]
        /\ UNCHANGED <<current, held>>
    BY <1>2, RaisesAreIdle DEF setfont
  <2> DEFINE new == [pages[current] EXCEPT !.cr = Set(Said(@, c.arg), "font", c.arg)]
  <2>2. /\ current \in Page /\ SoundPage(pages[current]) /\ pages[current].open
        /\ SoundDrawing(pages[current].cr, pages[current])
    BY <2>1, PageIsThere DEF present_cr
  <2>a. SoundDrawing(Said(pages[current].cr, c.arg), pages[current])
    <3>1. c.arg = "unusable" => Gives(Saying)
      BY UnusableIsGiven DEF setfont, Saying
    <3> QED
      BY <2>2, <3>1, StateIsSound
  <2>b. c.arg \in {"good", "other", "unusable", "pattern"} /\ "font" \in Attributes
    BY <2>1 DEF IsCommand, Attributes
  <2>3. SoundDrawing(Set(Said(pages[current].cr, c.arg), "font", c.arg), pages[current])
    BY <2>a, <2>b, StateIsSound
  <2>4. SoundPage(new) /\ new.refs = pages[current].refs /\ new.open
    BY <2>2, <2>3, PageDraws
  <2>5. pages' = [pages EXCEPT ![current] = new]
    BY <2>1
  <2> HIDE DEF new
  <2>6. Ok([pages EXCEPT ![current] = new], current, held)
    BY <2>2, <2>4, ChangeIsOk DEF IInv
  <2> QED
    BY <2>1, <2>5, <2>6
<1> QED
  BY <1>1, <1>2

LEMMA WindowIsOk ==
    ASSUME IInv, NEW c, IsCommand(c), Window(c)
    PROVE  Ok(pages', current', held')
<1>1. CASE Idle
  BY <1>1, IdleIsOk
<1>2. CASE ~Idle
  <2>1. /\ HasPage /\ c.op = "resize" /\ c.arg # "bad" /\ pages[current].backend = "window"
        /\ pages' = [pages EXCEPT ![current] = resize_window(@, Heights[c.arg])]
        /\ UNCHANGED <<current, held>>
    BY <1>2, RaisesAreIdle DEF Window
  <2> DEFINE h == Heights[c.arg]
             new == resize_window(pages[current], h)
  <2>2. h \in Sizes
    BY <2>1 DEF IsCommand, Moving, Saying, Heights, Sizes
  <2>3. current \in Page /\ SoundPage(pages[current]) /\ pages[current].open /\ pages[current] \in Contexts
    BY <2>1, PageIsThere
  <2>4. pages[current].scale \in Sizes
    BY <2>3 DEF Contexts
  <2> HIDE DEF h
  <2>5. SoundDrawing(DrawingContext(h, pages[current].scale), [pages[current] EXCEPT !.height = h])
    <3>1. [pages[current] EXCEPT !.height = h].height = h /\ [pages[current] EXCEPT !.height = h].scale = pages[current].scale
      BY <2>3 DEF Contexts
    <3> QED
      BY <2>2, <2>4, <3>1, FreshDrawing
  <2>6. DrawingContext(h, pages[current].scale) \in Drawings
    BY <2>5 DEF SoundDrawing
  <2>7. /\ new \in Contexts /\ new.height = h /\ new.scale = pages[current].scale
        /\ new.cr = DrawingContext(h, pages[current].scale)
        /\ new.refs = pages[current].refs /\ new.open = pages[current].open
        /\ new.backend = pages[current].backend /\ new.finished = pages[current].finished
    BY <2>2, <2>3, <2>6 DEF resize_window, Contexts
  <2> HIDE DEF new
  <2>8. SoundDrawing(new.cr, new)
    BY <2>2, <2>4, <2>7, FreshDrawing
  <2>9. Finished(new)
    BY <2>3, <2>7 DEF SoundPage, Finished, is_image_surface
  <2>10. SoundPage(new)
    BY <2>7, <2>8, <2>9 DEF SoundPage, SoundDrawing, Based
  <2>11. Ok([pages EXCEPT ![current] = new], current, held)
    BY <2>3, <2>7, <2>10, ChangeIsOk DEF IInv
  <2> QED
    BY <2>1, <2>11 DEF new, h
<1> QED
  BY <1>1, <1>2

LEMMA DisplayIsOk ==
    ASSUME IInv, NEW c, Display(c)
    PROVE  Ok(pages', current', held')
<1>1. CASE Idle
  BY <1>1, IdleIsOk
<1>2. CASE ~Idle
  <2>1. /\ HasPage
        /\ \E dismissed \in BOOLEAN : pages' = [pages EXCEPT ![current].dismissed = @ \/ dismissed]
        /\ UNCHANGED <<current, held>>
    BY <1>2, RaisesAreIdle DEF Display
  <2>2. current \in Page /\ SoundPage(pages[current]) /\ pages[current].open /\ pages[current] \in Contexts
    BY <2>1, PageIsThere
  <2>3. PICK gone \in BOOLEAN : pages' = [pages EXCEPT ![current].dismissed = gone]
    BY <2>1, <2>2 DEF Contexts
  <2> DEFINE new == [pages[current] EXCEPT !.dismissed = gone]
  <2>4. /\ new \in Contexts /\ new.height = pages[current].height /\ new.scale = pages[current].scale
        /\ new.cr = pages[current].cr /\ new.refs = pages[current].refs /\ new.open = pages[current].open
        /\ new.backend = pages[current].backend /\ new.finished = pages[current].finished
    BY <2>2 DEF Contexts
  <2>5. pages' = [pages EXCEPT ![current] = new]
    BY <2>3
  <2> HIDE DEF new
  <2>6. SoundPage(new)
    BY <2>2, <2>4 DEF SoundPage, Finished, is_image_surface, Based, AtBaseline
  <2>7. Ok([pages EXCEPT ![current] = new], current, held)
    BY <2>2, <2>4, <2>6, ChangeIsOk DEF IInv
  <2> QED
    BY <2>1, <2>5, <2>7
<1> QED
  BY <1>1, <1>2

-----------------------------------------------------------------------------
(* Theorems                                                                 *)

LEMMA CommandsAreCommands ==
    ASSUME IInv, NEW c, Asks(c)
    PROVE  IsCommand(c) /\ (c.page # NoPage => held[c.page] > 0) /\ theme.room \subseteq Page
BY ThemesAssumption DEF IInv, Asks

LEMMA StepKeepsIt ==
    ASSUME IInv, [Next]_vars
    PROVE  IInv'
<1>1. CASE UNCHANGED vars
  BY <1>1 DEF vars, IInv, Ok, SoundPage, Drawable, Gives
<1>2. CASE Misuse
  <2>1. Idle /\ theme' = theme
    BY <1>2, RaisesAreIdle DEF Misuse
  <2>2. Ok(pages', current', held')
    BY <2>1, IdleIsOk
  <2> QED
    BY <2>1, <2>2 DEF IInv, Ok, SoundPage, Drawable, Gives
<1>3. CASE Command
  <2>1. PICK c \in theme.commands : Asks(c) /\ (Handling(c) \/ Drawing(c)) /\ theme' = theme
    BY <1>3 DEF Command
  <2>2. IsCommand(c) /\ (c.page # NoPage => held[c.page] > 0) /\ theme.room \subseteq Page
    BY <2>1, CommandsAreCommands
  <2> SUFFICES Ok(pages', current', held')
    BY <2>1 DEF IInv, Ok, SoundPage, Drawable, Gives
  <2>3. CASE Handling(c)
    <3>1. CASE Open(c)
      BY <2>2, <3>1, OpenIsOk
    <3>2. CASE loadpng(c) \/ deserialize(c)
      BY <2>2, <3>2, PlacingIsOk
    <3>3. CASE setpage(c)
      BY <2>2, <3>3, setpageIsOk
    <3>4. CASE drawimage(c)
      BY <2>1, <2>2, <3>4, drawimageIsOk
    <3>5. CASE closepage(c)
      BY <2>2, <3>5, closepageIsOk
    <3>6. CASE currentpage(c) \/ Copy(c) \/ Discard(c) \/ writepng(c)
      BY <2>2, <3>6, TokensAreOk
    <3> QED
      BY <2>3, <3>1, <3>2, <3>3, <3>4, <3>5, <3>6 DEF Handling
  <2>4. CASE Drawing(c)
    <3>1. CASE \/ Construct(c) \/ arct(c) \/ Rounds(c) \/ Clip(c) \/ PathQueries(c) \/ flattenpath(c)
               \/ pathforall(c) \/ show(c) \/ charpath(c) \/ Paint(c)
      BY <2>1, <2>2, <3>1, PathCommands, IdleIsOk, DrawsIsOk
    <3>2. CASE \/ NewPattern(c) \/ addcolorstop(c) \/ setpattern(c) \/ Colors(c) \/ Lines(c)
               \/ SaveRestore(c) \/ Matrices(c) \/ Options(c) \/ setoperator(c)
      BY <2>1, <2>2, <3>2, StateCommands, IdleIsOk, DrawsIsOk
    <3>3. CASE \/ Transformed(c) \/ Queries(c) \/ CurrentFont(c) \/ Fonts(c) \/ listfonts(c)
               \/ OptionQueries(c)
      BY <3>3, Questions, IdleIsOk
    <3>7. CASE Measures(c)
      BY <2>1, <2>2, <3>7, MeasuresIsOk, IdleIsOk, DrawsIsOk
    <3>4. CASE setfont(c)
      BY <2>1, <2>2, <3>4, setfontIsOk
    <3>5. CASE Window(c)
      BY <2>2, <3>5, WindowIsOk
    <3>6. CASE Display(c)
      BY <3>6, DisplayIsOk
    <3> QED
      BY <2>4, <3>1, <3>2, <3>3, <3>4, <3>5, <3>6, <3>7 DEF Drawing
  <2> QED
    BY <2>1, <2>3, <2>4
<1> QED
  BY <1>1, <1>2, <1>3 DEF Next

\* Every context is counted by exactly the tokens that hold it, and the
\* current page is open; so none is deleted early or late (set_current_page,
\* and each command that takes or gives up a token).
THEOREM ContextsAreCounted == Spec => [](TypeOK /\ HandlesAreCounted)
<1>1. Spec => []IInv
  BY InitIsOk, StepKeepsIt, PTL DEF Spec
<1>2. IInv => TypeOK /\ HandlesAreCounted
  BY InvariantSaysAll
<1> QED
  BY <1>1, <1>2, PTL

\* A page that is a file is finished when it is closed or deleted, in whatever
\* way that comes (GraphicsContext::close).
THEOREM PagesFinishTheirFiles == Spec => []FilesAreFinished
<1>1. Spec => []IInv
  BY InitIsOk, StepKeepsIt, PTL DEF Spec
<1>2. IInv => FilesAreFinished
  BY InvariantSaysAll
<1> QED
  BY <1>1, <1>2, PTL

\* Only a matrix or a text that Cairo does not take, of a command that hands
\* it on unchecked, a restore too many, or a relative segment from nowhere stops
\* a page from drawing, whatever the commands and their order: a program that
\* gives no such operand keeps a page that draws (InvalidFontDictError and the
\* other checks of sli_graphics_module.cpp).
THEOREM PagesStayDrawable == Spec => []StaysDrawable
<1>1. Spec => []IInv
  BY InitIsOk, StepKeepsIt, PTL DEF Spec
<1>2. IInv => StaysDrawable
  BY InvariantSaysAll
<1> QED
  BY <1>1, <1>2, PTL

\* The matrix that a page begins with stays true to its size and device scale,
\* across gsave, grestore and resize, and loses the scale to initmatrix alone.
THEOREM PagesKeepTheirBaseline == Spec => []BaselineIsKept
<1>1. Spec => []IInv
  BY InitIsOk, StepKeepsIt, PTL DEF Spec
<1>2. IInv => BaselineIsKept
  BY InvariantSaysAll
<1> QED
  BY <1>1, <1>2, PTL

\* What draws, asks or paints leaves the slot as it is.
LEMMA DrawingKeepsTheSlot ==
    ASSUME NEW c, Drawing(c)
    PROVE  current' = current
<1>1. /\ \A error : Raise(error) => current' = current
      /\ NoCurrentPage => current' = current
      /\ Answers => current' = current
      /\ \A cr : Draw(cr) => current' = current
  BY DEF Raise, NoCurrentPage, Answers, Draw
<1>2. CASE \/ Construct(c) \/ arct(c) \/ Rounds(c) \/ Clip(c) \/ PathQueries(c) \/ flattenpath(c)
           \/ pathforall(c) \/ show(c) \/ charpath(c) \/ Paint(c)
  <2>1. CASE Construct(c)
    BY <1>1, <2>1 DEF Construct
  <2>2. CASE Paint(c) \/ arct(c) \/ Rounds(c) \/ Clip(c)
    BY <1>1, <2>2 DEF Paint, arct, Rounds, Clip
  <2>3. CASE PathQueries(c) \/ flattenpath(c) \/ pathforall(c) \/ show(c) \/ charpath(c)
    BY <1>1, <2>3 DEF PathQueries, flattenpath, pathforall, show, charpath
  <2> QED
    BY <1>2, <2>1, <2>2, <2>3
<1>3. CASE \/ NewPattern(c) \/ addcolorstop(c) \/ setpattern(c) \/ Colors(c) \/ Lines(c)
           \/ SaveRestore(c) \/ Matrices(c) \/ Options(c) \/ setoperator(c)
  <2>1. CASE NewPattern(c) \/ addcolorstop(c) \/ setpattern(c) \/ Colors(c)
    BY <1>1, <2>1 DEF NewPattern, addcolorstop, setpattern, Colors
  <2>2. CASE Lines(c) \/ SaveRestore(c) \/ Matrices(c)
    BY <1>1, <2>2 DEF Lines, SaveRestore, Matrices
  <2>3. CASE Options(c) \/ setoperator(c)
    BY <1>1, <2>3 DEF Options, setoperator
  <2> QED
    BY <1>3, <2>1, <2>2, <2>3
<1>4. CASE \/ Transformed(c) \/ Queries(c) \/ Measures(c) \/ CurrentFont(c) \/ Fonts(c)
           \/ listfonts(c) \/ OptionQueries(c)
  BY <1>1, <1>4 DEF Transformed, Queries, Measures, CurrentFont, Fonts, listfonts, OptionQueries
<1>5. CASE setfont(c) \/ Window(c) \/ Display(c)
  BY <1>1, <1>5 DEF setfont, Window, Display
<1> QED
  BY <1>2, <1>3, <1>4, <1>5 DEF Drawing

\* A page that is closed and then given up by whoever holds it stays closed.
LEMMA ClosedStaysClosed ==
    /\ \A pg \in Contexts : close(pg) \in Contexts /\ ~close(pg).open
    /\ \A pg \in Contexts : ~pg.open => remove_reference(pg).open = FALSE
<1>1. DrawingContext(1, 1) \in Drawings
  <2>1. SoundDrawing(DrawingContext(1, 1), [height |-> 1, scale |-> 1])
    BY FreshDrawing DEF Sizes
  <2> QED
    BY <2>1 DEF SoundDrawing
<1>2. \A pg \in Contexts : close(pg) \in Contexts /\ ~close(pg).open
  BY <1>1 DEF close, Contexts
<1>3. ASSUME NEW pg \in Contexts, ~pg.open PROVE remove_reference(pg).open = FALSE
  BY <1>3 DEF remove_reference, close, Contexts
<1> QED
  BY <1>2, <1>3

LEMMA SlotTurnsWithReason ==
    ASSUME IInv, NEW c, IsCommand(c), c.page # NoPage => held[c.page] > 0, Handling(c),
           theme.room \subseteq Page, current' # current
    PROVE  IF current' = NoPage THEN ~pages'[current].open
           ELSE held[current'] > 0 \/ pages[current'].refs = 0
<1>1. \A error : Raise(error) => current' = current
  BY DEF Raise
<1>2. CASE Open(c)
  <2>1. PICK p \in Fresh : current' = p
    BY <1>1, <1>2 DEF Open
  <2>2. p \in Page /\ pages[p].refs = 0
    BY <2>1 DEF Fresh
  <2> QED
    BY <2>1, <2>2, GraphicsAssumption
<1>3. CASE setpage(c)
  BY <1>1, <1>3 DEF setpage
<1>4. CASE closepage(c)
  <2>1. c.page # NoPage /\ current = c.page /\ current' = NoPage
    BY <1>4 DEF closepage
  <2>2. c.page \in Page
    BY <2>1 DEF IsCommand
  <2> DEFINE closed == close(pages[c.page])
             less == remove_reference(closed)
  <2>3. pages' = [pages EXCEPT ![c.page] = remove_reference(remove_reference(close(@)))]
    BY <1>4, <2>1, <2>2 DEF closepage, IInv, Ok
  <2>4. pages[c.page] \in Contexts
    BY <2>2 DEF IInv, Ok
  <2>5. closed \in Contexts /\ ~closed.open
    BY <2>4, ClosedStaysClosed
  <2>6. pages'[current] = remove_reference(remove_reference(close(pages[c.page])))
    BY <2>1, <2>2, <2>3 DEF IInv, Ok
  <2>7. ~less.open
    BY <2>5, ClosedStaysClosed
  <2> HIDE DEF less, closed
  <2>8. remove_reference(less).open = FALSE
    BY <2>7, <2>5 DEF less, remove_reference, close, Contexts
  <2> QED
    BY <2>1, <2>6, <2>8 DEF less, closed
<1>5. CASE writepng(c) \/ loadpng(c) \/ drawimage(c)
  BY <1>1, <1>5 DEF writepng, loadpng, drawimage
<1>6. CASE currentpage(c) \/ Copy(c) \/ Discard(c) \/ deserialize(c)
  BY <1>1, <1>6 DEF currentpage, Copy, Discard, deserialize, NoCurrentPage
<1> QED
  BY <1>2, <1>3, <1>4, <1>5, <1>6 DEF Handling

\* The slot turns to a page that the program has in its hands or has just
\* opened, and is cleared only with the page that it held, closed
\* (set_current_page, closepage).
THEOREM CurrentPageIsKept == Spec => CurrentPageStays
<1>1. Spec => []IInv
  BY InitIsOk, StepKeepsIt, PTL DEF Spec
<1>2. ASSUME IInv, [Next]_vars
      PROVE  [current' # current =>
                 IF current' = NoPage THEN ~pages'[current].open
                 ELSE held[current'] > 0 \/ pages[current'].refs = 0]_vars
  <2>1. CASE UNCHANGED vars
    BY <2>1
  <2>2. CASE Misuse
    BY <2>2 DEF Misuse, Raise
  <2>3. CASE Command
    <3>1. PICK c \in theme.commands : Asks(c) /\ (Handling(c) \/ Drawing(c))
      BY <2>3 DEF Command
    <3>2. IsCommand(c) /\ (c.page # NoPage => held[c.page] > 0) /\ theme.room \subseteq Page
      BY <1>2, <3>1, CommandsAreCommands
    <3> QED
      BY <1>2, <3>1, <3>2, SlotTurnsWithReason, DrawingKeepsTheSlot
  <2> QED
    BY <1>2, <2>1, <2>2, <2>3 DEF Next
<1> QED
  BY <1>1, <1>2, PTL DEF Spec, CurrentPageStays
=============================================================================
