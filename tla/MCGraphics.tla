------------------------------ MODULE MCGraphics ------------------------------
(***************************************************************************)
(* Graphics for TLC: commands that belong together, in every order.        *)
(***************************************************************************)
EXTENDS Graphics

CONSTANTS p1, p2

Each(ops, args) == {Call(op, arg) : op \in ops, arg \in args}
OnEach(ops, ps) == {CallOn(op, p, "good") : op \in ops, p \in ps}
Good == {"good"}
Both == {"good", "bad"}

\* Who holds what: two pages of every kind, and handles without a context.
Holding ==
    Each({"newpage", "newpdf", "loadpng", "currentpage", "restorestate", "showpage", "moveto"}, Good)
    \cup OnEach({"writepng", "drawimage", "setpage", "closepage"}, Page \cup {NoPage})
    \cup OnEach({"dup", "pop"}, Page) \cup {CallOn("drawimage", p1, arg) : arg \in {"bad", "unusable"}}

\* Matrices and saved states, across changes of size.
Transforming ==
    Each({"newpage", "newhidpioffscreen", "resize"}, {"good", "other", "bad"})
    \cup Each({"showpage", "erasepage", "windowclosed", "transform", "setfullscreen"}, Good)
    \cup Each({"translate", "rotate", "scale"}, {"good", "unusable"}) \cup Each({"setantialias"}, Both)
    \cup Each({"setmatrix", "concat"}, {"good", "bad", "unusable"})
    \cup Each({"gsave", "grestore", "initmatrix", "setlinewidth", "cleartransparent", "pagesize"}, Good)

\* Paths and points.
Walking ==
    Each({"newsvg", "newpath", "closepath", "moveto", "lineto", "rmoveto", "rlineto", "rect", "arc",
          "curveto", "rcurveto", "arcn", "circle", "stroke", "clip", "currentpoint", "pathbbox",
          "clippath", "flattenpath", "pathforall", "gsave", "grestore", "setwindowtitle"}, Good)
    \cup Each({"show", "charpath", "textextents"}, {"good", "unusable"}) \cup Each({"arct"}, {"good", "other"})

\* Attributes, good ones and bad ones, and the name of a font that Cairo does not take.
Setting ==
    Each({"setfont"}, {"unusable"})
    \cup Each({"newoffscreen", "setdash", "setfont", "setrgbcolor", "setlinecap", "setoperator",
               "setpattern", "addcolorstop"}, Both)
    \cup Each({"stringwidth", "linearpattern", "currentrgbacolor", "setgray", "currentfont", "findfont",
               "listfonts", "currentoperator", "currentdash", "gsave", "grestore", "setmiterlimit"}, Good)

MCThemes ==
    { [commands |-> Holding, room |-> Page],
      [commands |-> Transforming, room |-> {p1}],
      [commands |-> Walking, room |-> {p1}],
      [commands |-> Setting, room |-> {p1}] }
===============================================================================
