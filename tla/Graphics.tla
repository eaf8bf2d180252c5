------------------------------- MODULE Graphics -------------------------------
(***************************************************************************)
(* The graphics module (builtins/sli_graphics_module.cpp) on its contexts  *)
(* (containers/sli_graphics.cpp).  A page is a reference-counted context;  *)
(* tokens of the program and the slot /currentpage of gfxstatus hold it,   *)
(* and what draws, draws on the current page.  Of Cairo the model keeps    *)
(* what the module relies on: the graphics state and its stack, the path's *)
(* current point, and the status that, once it is an error, makes every    *)
(* later call on the page a no-op.                                         *)
(*                                                                         *)
(* An operand is abstracted to what the module and Cairo tell apart: good, *)
(* other (good as well, and not the same), bad (the module has a check for *)
(* it), or unusable: it passes the checks that the module has, and Cairo   *)
(* does not take it, as a matrix or a factor without a finite inverse, an  *)
(* offset, angle or size that is not finite, or a text, or the name of a   *)
(* font, that is not UTF-8.                                                *)
(***************************************************************************)
EXTENDS Integers, FiniteSets, Sequences

CONSTANTS
    Page,           \* places for contexts
    NoPage,         \* no context
    Themes,         \* what a program keeps to: its commands, and the places
                    \* for contexts that there is room for
    MaxHandles,     \* bound: tokens of the program that hold one page
    MaxSaves        \* bound: gsaves of one page without their grestore

ASSUME GraphicsAssumption == NoPage \notin Page /\ MaxHandles \in Nat /\ MaxSaves \in Nat

VARIABLES
    theme,          \* one of the Themes
    pages,          \* the contexts
    current,        \* gfxstatus /currentpage
    currentfont,    \* gfxstatus /currentfont
    held,           \* how many tokens of the program hold each page
    answer          \* the error of the last command, or none

vars == <<theme, pages, current, currentfont, held, answer>>

Attributes == {"source", "width", "cap", "join", "miter", "dash", "font", "antialias",
               "hinting", "hintmetrics", "operator"}

-----------------------------------------------------------------------------
(* A context *)

\* finish_cairo_setup_: device scale, then the flip at the page's height; by
\* tells whose matrix it is now: the page's, initmatrix's or the program's own.
Baseline(height, scale) == [height |-> height, scale |-> scale, by |-> "page"]
Reset(height) == [height |-> height, scale |-> 1, by |-> "initmatrix"]
NoPath == [point |-> FALSE, segments |-> {}]
DrawingContext(height, scale) ==
    [ g |-> [ctm |-> Baseline(height, scale), clip |-> FALSE, attr |-> [a \in Attributes |-> "default"]],
      saves |-> <<>>, path |-> NoPath, status |-> "success" ]

\* Every open_ function, with the references that the caller takes of it.
Context(backend, height, scale, refs) ==
    [ backend |-> backend, height |-> height, scale |-> scale, refs |-> refs,
      open |-> TRUE, finished |-> FALSE, dismissed |-> FALSE,
      cr |-> DrawingContext(height, scale) ]
Unused == [Context("offscreen", 1, 1, 0) EXCEPT !.open = FALSE]

is_image_surface(pg) == pg.backend \in {"window", "offscreen"}

\* GraphicsContext::close, of a context that may be closed already.
CloseUnfinished(pg) == [pg EXCEPT !.open = FALSE, !.cr = DrawingContext(1, 1)]
close(pg) ==
    [pg EXCEPT !.open = FALSE, !.cr = DrawingContext(1, 1),
               !.finished = @ \/ (pg.open /\ ~is_image_surface(pg))]

\* The last one to go deletes the context, and the destructor closes it.
remove_reference(pg) ==
    LET less == [pg EXCEPT !.refs = @ - 1] IN IF pg.refs = 1 THEN close(less) ELSE less
add_reference(pg) == [pg EXCEPT !.refs = @ + 1]

-----------------------------------------------------------------------------
(* Cairo, as far as the module sees it *)

\* Once the status is an error nothing changes any more.
Cairo(cr, new) == IF cr.status = "success" THEN new ELSE cr
Broken(cr, status) == Cairo(cr, [cr EXCEPT !.status = status])

cairo_save(cr) == Cairo(cr, [cr EXCEPT !.saves = Append(@, cr.g)])
cairo_restore(cr) ==
    IF cr.saves = <<>> THEN Broken(cr, "invalid restore")
    ELSE Cairo(cr, [cr EXCEPT !.g = cr.saves[Len(cr.saves)],
                              !.saves = SubSeq(@, 1, Len(@) - 1)])
cairo_has_current_point(cr) == cr.status = "success" /\ cr.path.point

Drawn(cr, segments) == Cairo(cr, [cr EXCEPT !.path = [point |-> TRUE, segments |-> @.segments \cup segments]])
Relative(cr, segments) == IF cr.path.point THEN Drawn(cr, segments) ELSE Broken(cr, "no current point")
Cleared(cr) == Cairo(cr, [cr EXCEPT !.path = NoPath])
Clipped(cr) == Cairo(cr, [cr EXCEPT !.g.clip = TRUE, !.path = NoPath])
Moved(cr, arg) ==
    IF arg = "unusable" THEN Broken(cr, "invalid matrix")
    ELSE Cairo(cr, [cr EXCEPT !.g.ctm.by = "program"])
\* Every function that takes a text reads it as UTF-8.
Said(cr, arg) == IF arg = "unusable" THEN Broken(cr, "invalid string") ELSE cr
Set(cr, attribute, arg) ==
    IF arg = "bad" THEN Broken(cr, "invalid value")
    ELSE Cairo(cr, [cr EXCEPT !.g.attr[attribute] = arg])

-----------------------------------------------------------------------------
(* Commands *)

BackendOf == [newpage |-> "window", newoffscreen |-> "offscreen", newhidpioffscreen |-> "offscreen",
              newpdf |-> "pdf", newsvg |-> "svg"]

\* The commands that check an operand for more than its type, those that take
\* a size among them, and those that leave a check of theirs to Cairo: the ones
\* that change the matrix, and the ones that take a text or the name of a font.
Checking ==
    DOMAIN BackendOf \cup
    { "resize", "drawimage", "addcolorstop", "setpattern", "setrgbcolor", "setrgbacolor", "setlinecap",
      "setlinejoin", "setdash", "setmatrix", "concat", "setfont", "setantialias", "sethinting",
      "sethintmetrics", "setoperator" }
Moving == {"translate", "rotate", "scale", "setmatrix", "concat", "drawimage"}
Saying == {"setfont", "show", "charpath", "stringwidth", "textextents"}
IsCommand(c) ==
    /\ c.page \in Page \cup {NoPage}
    /\ c.arg \in {"good", "other", "bad", "unusable"}
    /\ c.arg = "bad" => c.op \in Checking
    /\ c.arg = "unusable" => c.op \in Moving \cup Saying
ASSUME ThemesAssumption ==
    \A t \in Themes : t.room \subseteq Page /\ \A c \in t.commands : IsCommand(c)

Call(op, arg) == [op |-> op, arg |-> arg, page |-> NoPage]
CallOn(op, page, arg) == [op |-> op, arg |-> arg, page |-> page]

Init ==
    /\ theme \in Themes
    /\ pages = [p \in Page |-> Unused]
    /\ current = NoPage /\ currentfont = "none"
    /\ held = [p \in Page |-> 0]
    /\ answer = "none"

\* A handle is one that the program holds, or one without a context, as a
\* saved state gives it back when no context could be made.
Asks(c) == c \in theme.commands /\ (c.page # NoPage => held[c.page] > 0)
Raise(error) == answer' = error /\ UNCHANGED <<pages, current, currentfont, held>>

\* peek_current_gc, require_current_gc
HasPage == current # NoPage /\ pages[current].open
NoCurrentPage == ~HasPage /\ Raise("NoCurrentPageError")

Draw(cr) ==
    /\ pages' = [pages EXCEPT ![current].cr = cr]
    /\ answer' = "none"
    /\ UNCHANGED <<current, currentfont, held>>
Answers == answer' = "none" /\ UNCHANGED <<pages, current, currentfont, held>>
present_cr == pages[current].cr

\* The operands may be too few, or of a wrong type: that is always checked
\* first, and changes nothing.
Misuse == \E c \in theme.commands : Asks(c) /\ Raise("ArgumentTypeError") /\ UNCHANGED theme

\* set_current_page: the slot takes a reference and gives up its old one.
SetCurrent(ps, p) ==
    LET taken == [ps EXCEPT ![p] = add_reference(@)]
    IN  IF current = NoPage THEN taken ELSE [taken EXCEPT ![current] = remove_reference(@)]

-----------------------------------------------------------------------------
(* Contexts and who holds them *)

Heights == [good |-> 1, other |-> 2]
Fresh == {p \in theme.room : pages[p].refs = 0}

Open(c) ==
    /\ c.op \in DOMAIN BackendOf
    /\ \/ c.arg = "bad" /\ Raise("RangeCheckError")
       \/ c.arg # "bad" /\ Raise("GraphicsBackendError")
       \/ /\ c.arg # "bad"
          /\ \E p \in Fresh :
                LET scale == IF c.op = "newhidpioffscreen" THEN 2 ELSE 1
                    opened == [pages EXCEPT ![p] = Context(BackendOf[c.op], Heights[c.arg], scale, 1)]
                IN  /\ pages' = SetCurrent(opened, p)
                    /\ held' = [held EXCEPT ![p] = 1]
                    /\ current' = p
          /\ answer' = "none" /\ UNCHANGED currentfont

writepng(c) ==
    /\ c.op = "writepng"
    /\ IF c.page = NoPage \/ ~pages[c.page].open THEN Raise("NoCurrentPageError")
       ELSE IF ~is_image_surface(pages[c.page]) THEN Raise("UnsupportedSurfaceError")
       ELSE   \/ Raise("WritePngError")
              \/ /\ pages' = [pages EXCEPT ![c.page] = remove_reference(@)]
                 /\ held' = [held EXCEPT ![c.page] = @ - 1]
                 /\ answer' = "none" /\ UNCHANGED <<current, currentfont>>

\* The page of a file does not become the current one.
loadpng(c) ==
    /\ c.op = "loadpng"
    /\ \/ Raise("LoadPngError")
       \/ /\ \E p \in Fresh : /\ pages' = [pages EXCEPT ![p] = Context("offscreen", 1, 1, 1)]
                              /\ held' = [held EXCEPT ![p] = 1]
          /\ answer' = "none" /\ UNCHANGED <<current, currentfont>>

drawimage(c) ==
    /\ c.op = "drawimage"
    /\ IF \/ c.page = NoPage \/ ~pages[c.page].open
          \/ ~is_image_surface(pages[c.page])
       THEN Raise("UnsupportedSurfaceError")
       ELSE IF ~HasPage THEN Raise("NoCurrentPageError")
       ELSE IF c.arg = "bad" THEN Raise("RangeCheckError")
       ELSE   LET drawn == [pages EXCEPT ![current].cr = cairo_restore(Moved(cairo_save(@), c.arg))]
              IN  /\ pages' = [drawn EXCEPT ![c.page] = remove_reference(@)]
                  /\ held' = [held EXCEPT ![c.page] = @ - 1]
                  /\ answer' = "none" /\ UNCHANGED <<current, currentfont>>

setpage(c) ==
    /\ c.op = "setpage"
    /\ IF c.page = NoPage \/ ~pages[c.page].open THEN Raise("ClosedContextError")
       ELSE /\ pages' = [SetCurrent(pages, c.page) EXCEPT ![c.page] = remove_reference(@)]
            /\ held' = [held EXCEPT ![c.page] = @ - 1]
            /\ current' = c.page
            /\ answer' = "none" /\ UNCHANGED currentfont

CloseAnyPage(c) ==
    /\ c.op = "closepage"
    /\ answer' = "none" /\ UNCHANGED currentfont
    /\ IF c.page = NoPage THEN UNCHANGED <<pages, current, held>>
       ELSE LET closed == [pages EXCEPT ![c.page] = close(@)]
                cleared == IF current # NoPage THEN [closed EXCEPT ![current] = remove_reference(@)]
                           ELSE closed
            IN  /\ pages' = [cleared EXCEPT ![c.page] = remove_reference(@)]
                /\ held' = [held EXCEPT ![c.page] = @ - 1]
                /\ current' = NoPage
\* The slot is cleared when it holds this page.
closepage(c) ==
    /\ c.op = "closepage"
    /\ answer' = "none" /\ UNCHANGED currentfont
    /\ IF c.page = NoPage THEN UNCHANGED <<pages, current, held>>
       ELSE LET closed == [pages EXCEPT ![c.page] = close(@)]
                cleared == IF current = c.page THEN [closed EXCEPT ![c.page] = remove_reference(@)]
                           ELSE closed
            IN  /\ pages' = [cleared EXCEPT ![c.page] = remove_reference(@)]
                /\ held' = [held EXCEPT ![c.page] = @ - 1]
                /\ current' = IF current = c.page THEN NoPage ELSE current

UncountedCurrentPage(c) ==
    /\ c.op = "currentpage"
    /\ \/ NoCurrentPage
       \/ /\ HasPage
          /\ held[current] < MaxHandles
          /\ held' = [held EXCEPT ![current] = @ + 1]
          /\ answer' = "none" /\ UNCHANGED <<pages, current, currentfont>>
currentpage(c) ==
    /\ c.op = "currentpage"
    /\ \/ NoCurrentPage
       \/ /\ HasPage
          /\ held[current] < MaxHandles
          /\ pages' = [pages EXCEPT ![current] = add_reference(@)]
          /\ held' = [held EXCEPT ![current] = @ + 1]
          /\ answer' = "none" /\ UNCHANGED <<current, currentfont>>

\* Copies of tokens come and go as the program runs.
Copy(c) ==
    /\ c.op = "dup" /\ c.page # NoPage /\ held[c.page] < MaxHandles
    /\ pages' = [pages EXCEPT ![c.page] = add_reference(@)]
    /\ held' = [held EXCEPT ![c.page] = @ + 1]
    /\ answer' = "none" /\ UNCHANGED <<current, currentfont>>
Discard(c) ==
    /\ c.op = "pop" /\ c.page # NoPage
    /\ pages' = [pages EXCEPT ![c.page] = remove_reference(@)]
    /\ held' = [held EXCEPT ![c.page] = @ - 1]
    /\ answer' = "none" /\ UNCHANGED <<current, currentfont>>

\* GraphicsContextType::deserialize: a handle of a closed context.
deserialize(c) ==
    /\ c.op = "restorestate"
    /\ \E p \in Fresh : /\ pages' = [pages EXCEPT ![p] = close(Context("offscreen", 1, 1, 1))]
                        /\ held' = [held EXCEPT ![p] = 1]
    /\ answer' = "none" /\ UNCHANGED <<current, currentfont>>

Handling(c) ==
    \/ Open(c) \/ writepng(c) \/ loadpng(c) \/ drawimage(c) \/ setpage(c) \/ closepage(c)
    \/ currentpage(c) \/ Copy(c) \/ Discard(c) \/ deserialize(c)

-----------------------------------------------------------------------------
(* Patterns: a pattern token always has its pattern, but for one that a     *)
(* saved state gives back.                                                  *)

NewPattern(c) ==
    c.op \in {"linearpattern", "radialpattern"} /\ (Answers \/ Raise("PatternError"))
addcolorstop(c) ==
    /\ c.op = "addcolorstop"
    /\ IF c.arg = "bad" THEN Raise("PatternError") ELSE Answers
setpattern(c) ==
    /\ c.op = "setpattern"
    /\ IF c.arg = "bad" THEN Raise("PatternError")
       ELSE NoCurrentPage \/ (HasPage /\ Draw(Set(present_cr, "source", "pattern")))

-----------------------------------------------------------------------------
(* Paths *)

Construct(c) ==
    /\ c.op \in {"newpath", "closepath", "moveto", "lineto", "rmoveto", "rlineto", "translate",
                 "scale", "rect", "arc", "curveto", "rcurveto", "rotate"}
    /\ \/ NoCurrentPage
       \/ HasPage /\
         CASE c.op = "newpath" -> Draw(Cleared(present_cr))
           [] c.op = "closepath" -> Draw(IF present_cr.path.point THEN Drawn(present_cr, {"close"})
                                         ELSE present_cr)
           [] c.op = "moveto" -> Draw(Drawn(present_cr, {}))
           [] c.op = "lineto" -> Draw(Drawn(present_cr, IF present_cr.path.point THEN {"line"} ELSE {}))
           [] c.op = "rmoveto" -> Draw(Relative(present_cr, {}))
           [] c.op = "rlineto" -> Draw(Relative(present_cr, {"line"}))
           [] c.op = "rcurveto" -> Draw(Relative(present_cr, {"curve"}))
           [] c.op \in {"curveto", "arc"} -> Draw(Drawn(present_cr, {"curve"}))
           [] c.op = "rect" -> Draw(Drawn(present_cr, {"line", "close"}))
           [] OTHER -> Draw(Moved(present_cr, c.arg))

\* A fillet needs a point to start from; one that does not fit is a line.
arct(c) ==
    /\ c.op = "arct"
    /\ \/ NoCurrentPage
       \/ HasPage /\
         IF ~cairo_has_current_point(present_cr) THEN Raise("NoCurrentPointError")
         ELSE Draw(Drawn(present_cr, IF c.arg = "other" THEN {"line"} ELSE {"line", "curve"}))

Rounds(c) ==
    /\ c.op \in {"arcn", "circle"}
    /\ \/ NoCurrentPage
       \/ HasPage /\ Draw(Drawn(present_cr, IF c.op = "circle" THEN {"curve", "close"} ELSE {"curve"}))

\* What needs a state of its own for a while saves and restores it.
Paint(c) ==
    /\ c.op \in {"stroke", "fill", "erasepage", "cleartransparent"}
    /\ \/ NoCurrentPage
       \/ HasPage /\ Draw(IF c.op \in {"stroke", "fill"} THEN Cleared(present_cr)
                          ELSE cairo_restore(cairo_save(present_cr)))

Clip(c) ==
    /\ c.op \in {"clip", "eoclip"}
    /\ \/ NoCurrentPage
       \/ HasPage /\ Draw(Clipped(present_cr))

PathQueries(c) ==
    /\ c.op \in {"currentpoint", "pathbbox", "clippath"}
    /\ \/ NoCurrentPage
       \/ HasPage /\
         CASE c.op = "clippath" -> Draw(Drawn(Cleared(present_cr), {"line", "close"}))
           [] c.op = "currentpoint" /\ ~cairo_has_current_point(present_cr) ->
                Raise("NoCurrentPointError")
           [] OTHER -> Answers

\* The path drawn again with lines for its curves.
Flat(segments) == (segments \ {"curve"}) \cup (IF "curve" \in segments THEN {"line"} ELSE {})
flattenpath(c) ==
    /\ c.op = "flattenpath"
    /\ \/ NoCurrentPage
       \/ HasPage /\
         IF present_cr.status # "success" THEN Raise("PathError")
         ELSE IF present_cr.path.point
         THEN Draw(Drawn(Cleared(present_cr), Flat(present_cr.path.segments)))
         ELSE Answers

\* The procedure that walks the path runs after the command; see Dispatcher.
pathforall(c) ==
    /\ c.op = "pathforall"
    /\ \/ NoCurrentPage
       \/ HasPage /\ IF present_cr.status = "success" THEN Answers ELSE Raise("PathError")

-----------------------------------------------------------------------------
(* The graphics state *)

ColorSetters == {"setrgbcolor", "setgray", "sethsbcolor", "setrgbacolor"}
Colors(c) ==
    /\ c.op \in ColorSetters \cup {"setlinewidth", "currentrgbcolor", "currentrgbacolor"}
    /\ IF c.op \in {"setrgbcolor", "setrgbacolor"} /\ c.arg = "bad" THEN Raise("ColorShapeError")
       ELSE
            /\ \/ NoCurrentPage
               \/ HasPage /\
                 CASE c.op \in ColorSetters -> Draw(Set(present_cr, "source", c.arg))
                   [] c.op = "setlinewidth" -> Draw(Set(present_cr, "width", c.arg))
                   [] OTHER -> IF present_cr.status = "success" /\ present_cr.g.attr.source = "pattern"
                               THEN Raise("NonSolidSourceError") ELSE Answers

LineAttribute == [setlinecap |-> "cap", setlinejoin |-> "join", setmiterlimit |-> "miter",
                  setdash |-> "dash"]
LinesUnchecked(c) ==
    /\ c.op \in DOMAIN LineAttribute
    /\ \/ NoCurrentPage
       \/ HasPage /\ Draw(Set(present_cr, LineAttribute[c.op], c.arg))
Lines(c) ==
    /\ c.op \in DOMAIN LineAttribute
    /\ \/ NoCurrentPage
       \/ HasPage /\
         IF c.arg = "bad" /\ c.op # "setmiterlimit"
         THEN Raise(IF c.op = "setdash" THEN "DashShapeError" ELSE "RangeCheckError")
         ELSE Draw(Set(present_cr, LineAttribute[c.op], c.arg))

SaveRestore(c) ==
    /\ c.op \in {"gsave", "grestore"}
    /\ \/ NoCurrentPage
       \/ /\ HasPage
          /\ c.op = "gsave" => Len(present_cr.saves) < MaxSaves
          /\ Draw(IF c.op = "gsave" THEN cairo_save(present_cr) ELSE cairo_restore(present_cr))

Matrices(c) ==
    /\ c.op \in {"setmatrix", "concat", "initmatrix"}
    /\ IF c.arg = "bad" THEN Raise("MatrixShapeError")
       ELSE
            /\ \/ NoCurrentPage
               \/ HasPage /\
                 CASE c.op = "initmatrix" ->
                        Draw(Cairo(present_cr, [present_cr EXCEPT !.g.ctm = Reset(pages[current].height)]))
                   [] OTHER -> Draw(Moved(present_cr, c.arg))

\* What only asks.
Transformed(c) ==
    /\ c.op \in {"currentmatrix", "transform", "itransform"}
    /\ NoCurrentPage \/ (HasPage /\ Answers)
Queries(c) ==
    /\ c.op \in {"currentlinewidth", "currentlinecap", "currentlinejoin", "currentdash"}
    /\ NoCurrentPage \/ (HasPage /\ Answers)
Measures(c) ==
    /\ c.op \in {"pagesize", "textextents", "stringwidth"}
    /\ NoCurrentPage \/ (HasPage /\ Draw(Said(present_cr, c.arg)))
\* The slot tells the last font that was set, on whatever page.
CurrentFont(c) ==
    /\ c.op = "currentfont"
    /\ IF currentfont = "none" THEN Raise("NoCurrentFontError") ELSE Answers

-----------------------------------------------------------------------------
(* Windows *)

\* resize_window: the new surface has a drawing context of its own; the old
\* one goes, and with it all that the program has set or saved.
ResizeKeepsSize(pg, height) == [pg EXCEPT !.cr = DrawingContext(height, pg.scale)]
resize_window(pg, height) == [pg EXCEPT !.height = height, !.cr = DrawingContext(height, pg.scale)]

Window(c) ==
    /\ c.op \in {"setwindowtitle", "setwindowpos", "setfullscreen", "resize"}
    /\ IF c.op = "resize" /\ c.arg = "bad" THEN Raise("RangeCheckError")
       ELSE
            /\ \/ NoCurrentPage
               \/ HasPage /\
                 IF pages[current].backend # "window" THEN Raise("UnsupportedSurfaceError")
                 ELSE IF c.op # "resize" THEN Answers
                 ELSE \/ Raise("GraphicsBackendError")
                      \/ /\ pages' = [pages EXCEPT ![current] = resize_window(@, Heights[c.arg])]
                         /\ answer' = "none" /\ UNCHANGED <<current, currentfont, held>>

\* present and pump_for: while events are taken the user may close the window.
Display(c) ==
    /\ c.op \in {"showpage", "flushpage", "wait", "windowclosed"}
    /\ \/ NoCurrentPage
       \/ HasPage /\
         IF c.op = "windowclosed" THEN Answers
         ELSE /\ \E dismissed \in {FALSE, pages[current].backend = "window"} :
                    pages' = [pages EXCEPT ![current].dismissed = @ \/ dismissed]
              /\ answer' = "none" /\ UNCHANGED <<current, currentfont, held>>

-----------------------------------------------------------------------------
(* Text, quality and compositing *)

setfont(c) ==
    /\ c.op = "setfont"
    /\ \/ NoCurrentPage
       \/ HasPage /\
         IF c.arg = "bad" THEN Raise("InvalidFontDictError")
         ELSE /\ pages' = [pages EXCEPT ![current].cr = Set(Said(@, c.arg), "font", c.arg)]
              /\ currentfont' = c.arg
              /\ answer' = "none" /\ UNCHANGED <<current, held>>

\* show moves on to the end of the text; charpath draws the glyphs.
show(c) ==
    /\ c.op = "show"
    /\ \/ NoCurrentPage
       \/ HasPage /\
         IF ~cairo_has_current_point(present_cr) THEN Raise("NoCurrentPointError")
         ELSE Draw(Drawn(cairo_restore(Said(cairo_save(present_cr), c.arg)), {}))
charpath(c) ==
    /\ c.op = "charpath"
    /\ \/ NoCurrentPage
       \/ HasPage /\
         IF ~cairo_has_current_point(present_cr) THEN Raise("NoCurrentPointError")
         ELSE Draw(Drawn(cairo_restore(Said(cairo_save(present_cr), c.arg)), {"curve", "close"}))

\* These work on dictionaries and on the system, not on a page.
Fonts(c) == c.op \in {"findfont", "scalefont"} /\ Answers
listfonts(c) == c.op = "listfonts" /\ (Answers \/ Raise("FontConfigError"))

Named == [setantialias |-> "antialias", sethinting |-> "hinting", sethintmetrics |-> "hintmetrics"]
UnknownName == [setantialias |-> "UnknownAntialiasError", sethinting |-> "UnknownHintingError",
                sethintmetrics |-> "UnknownHintMetricsError"]
Options(c) ==
    /\ c.op \in DOMAIN Named
    /\ IF c.arg = "bad" THEN Raise(UnknownName[c.op])
       ELSE NoCurrentPage \/ (HasPage /\ Draw(Set(present_cr, Named[c.op], c.arg)))
setoperator(c) ==
    /\ c.op = "setoperator"
    /\ IF c.arg = "bad" THEN Raise("UnknownOperatorError")
       ELSE NoCurrentPage \/ (HasPage /\ Draw(Set(present_cr, "operator", c.arg)))
OptionQueries(c) ==
    /\ c.op \in {"currentantialias", "currenthinting", "currenthintmetrics", "currentoperator"}
    /\ NoCurrentPage \/ (HasPage /\ Answers)

-----------------------------------------------------------------------------
Drawing(c) ==
    \/ NewPattern(c) \/ addcolorstop(c) \/ setpattern(c) \/ Construct(c) \/ arct(c) \/ Rounds(c) \/ Paint(c) \/ Clip(c)
    \/ PathQueries(c) \/ flattenpath(c) \/ pathforall(c)
    \/ Colors(c) \/ Lines(c) \/ SaveRestore(c) \/ Matrices(c)
    \/ Transformed(c) \/ Queries(c) \/ Measures(c) \/ CurrentFont(c)
    \/ Window(c) \/ Display(c) \/ setfont(c) \/ show(c) \/ charpath(c) \/ Fonts(c) \/ listfonts(c)
    \/ Options(c) \/ setoperator(c) \/ OptionQueries(c)

Command == \E c \in theme.commands : Asks(c) /\ (Handling(c) \/ Drawing(c)) /\ UNCHANGED theme
Next == Command \/ Misuse

Spec == Init /\ [][Next]_vars

-----------------------------------------------------------------------------
(* Properties *)

Backends == {"window", "offscreen", "pdf", "svg"}
Statuses ==
    {"success", "invalid restore", "invalid matrix", "invalid string", "no current point", "invalid value"}
Sizes == {1, 2}
GraphicsState ==
    [ ctm : [height : Sizes, scale : Sizes, by : {"page", "initmatrix", "program"}], clip : BOOLEAN,
      attr : [Attributes -> {"default", "good", "other", "unusable", "pattern"}] ]
Drawings ==
    [ g : GraphicsState, saves : Seq(GraphicsState),
      path : [point : BOOLEAN, segments : SUBSET {"line", "curve", "close"}], status : Statuses ]
Contexts ==
    [ backend : Backends, height : Sizes, scale : Sizes, refs : Nat, open : BOOLEAN,
      finished : BOOLEAN, dismissed : BOOLEAN, cr : Drawings ]

\* Types; a command that Cairo stops in its middle leaves the state it saved.
Left(cr) == IF cr.status = "success" THEN 0 ELSE 1
TypeOK ==
    /\ theme \in Themes
    /\ pages \in [Page -> Contexts]
    /\ \A p \in Page : Len(pages[p].cr.saves) <= MaxSaves + Left(pages[p].cr)
    /\ current \in Page \cup {NoPage}
    /\ held \in [Page -> Nat]

\* A context counts exactly the tokens that hold it, those of the program and
\* that of gfxstatus; so it is deleted with the last of them, never sooner;
\* and the current page is always one that is open.
HandlesAreCounted ==
    /\ \A p \in Page : pages[p].refs = held[p] + (IF current = p THEN 1 ELSE 0)
    /\ current # NoPage => pages[current].open

\* However a page that is a file goes, closed by the program or deleted with
\* its last handle, the file is finished.
Finished(pg) == ~is_image_surface(pg) => pg.finished = ~pg.open
FilesAreFinished == \A p \in Page : Finished(pages[p])

\* A page stops drawing, with an error of Cairo's that stays, for four reasons
\* only: a program has restored more than it saved on this drawing context, or
\* drawn relative to no point; it has given a matrix, or what makes one, that
\* cannot be inverted; or a text, or a font's name, that is not UTF-8.  These
\* are the operands of Moving and Saying, which the module hands on as they
\* are; what it does check never gets so far, whatever else is on the page.
Gives(ops) == \E c \in theme.commands : c.op \in ops /\ c.arg = "unusable"
Drawable(cr) ==
    /\ cr.status # "invalid value"
    /\ cr.status = "invalid restore" => cr.saves = <<>>
    /\ cr.status = "no current point" => ~cr.path.point
    /\ cr.status = "invalid matrix" => Gives(Moving)
    /\ cr.status = "invalid string" => Gives(Saying)
StaysDrawable == \A p \in Page : Drawable(pages[p].cr)

\* A matrix, present or saved, that the program has not moved is the one that
\* the page began with: the flip at the height that the page has now, and its
\* device scale.  The one of initmatrix lacks the device scale, and that is the
\* only way to lose it.  (The comment of initmatrix says that it resets to the
\* baseline of the page: true where the device scale is 1.)
AtBaseline(ctm, pg) ==
    ctm = CASE ctm.by = "page" -> Baseline(pg.height, pg.scale)
            [] ctm.by = "initmatrix" -> Reset(pg.height)
            [] OTHER -> ctm
Based(pg) == AtBaseline(pg.cr.g.ctm, pg) /\ \A i \in DOMAIN pg.cr.saves : AtBaseline(pg.cr.saves[i].ctm, pg)
BaselineIsKept == \A p \in Page : pages[p].open => Based(pages[p])

\* The current page changes only to one that the program has in its hands, and
\* is lost only when that very page is closed.
CurrentPageStays ==
    [][current' # current =>
          IF current' = NoPage THEN ~pages'[current].open
          ELSE held[current'] > 0 \/ pages[current'].refs = 0]_vars
===============================================================================
