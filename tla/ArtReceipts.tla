---------------------------- MODULE ArtReceipts ----------------------------
(***************************************************************************)
(* Pictures of theorems and the receipts that seal them (hyperkitty-art):  *)
(* a theorem becomes a scene, a scene is rendered in one of seven formats, *)
(* and a receipt keeps the hash and the size of the last picture.  What is *)
(* abstracted is the markup; which nodes of a scene a format writes down,  *)
(* and what of a node, is not.                                             *)
(***************************************************************************)
EXTENDS Integers, Sequences, FiniteSets, SequencesExt

CONSTANTS Theorems,  \* [kind, name, proof_steps]
          MaxRenders \* bound on the pictures a pipeline makes
ASSUME ArtBounds == MaxRenders \in Nat

VARIABLES pipeline, \* VisualizationPipeline
          gallery,  \* pictures made so far, each with its theorem and its format
          kept      \* copies of receipts, whoever made them
artVars == <<pipeline, gallery, kept>>

Formats == {"SVG", "Canvas", "WebGL", "PNG", "PDF", "GIF", "WebM"}

(***************************************************************************)
(* Theorems, and of each step of a proof its visual hint.  The fields are  *)
(* public: anyone may put others together.                                 *)
(***************************************************************************)
TheoremAst(kind, name, steps) == [kind |-> kind, name |-> name, proof_steps |-> steps]
qlg_sphere   == TheoremAst("QLGSphere", "QLG Sphere Invariant", <<"sphere", "rotation">>)
sla_balance  == TheoremAst("SLABalance", "SLA Balance Axiom", <<"balance_scale">>)
qra_identity == TheoremAst("QRAIdentity", "QRA Identity Row", <<"matrix">>)
witness_exhaustion ==
  TheoremAst("WitnessExhaustion", "Witness Exhaustion", <<"arrow", "checkmark">>)
jordan_commutativity == TheoremAst("JordanCommutativity", "Jordan Commutativity", <<"symmetric">>)
nand_completeness ==
  TheoremAst("NANDCompleteness", "NAND Completeness", <<"gate", "gate", "gate">>)

(***************************************************************************)
(* Scenes.  "" is no label.                                                *)
(***************************************************************************)
Shape(geometry, size, x, label) ==
  [geometry |-> geometry, size |-> size, x |-> x, y |-> 0, label |-> label]
Scene(name, root, children, x_max, y_max) ==
  [name |-> name, root |-> root, children |-> children,
   bounds |-> <<-x_max, -y_max, x_max, y_max>>]
Group == Shape("Group", 0, 0, "")
Row(geometry, size, labels) ==
  [i \in 1 .. 3 |-> Shape(geometry, size, (i - 2) * 30, labels[i])]

from_theorem(t) ==
  CASE t.kind = "QLGSphere" ->
         Scene("QLG Sphere", Shape("Sphere", 50, 0, "x2 + y2 + z2 = 1"), <<>>, 60, 60)
    [] t.kind = "SLABalance" ->
         Scene("SLA Balance", Group, <<Shape("Cube", 20, -25, "Debit"), Shape("Cube", 20, 25, "Credit")>>, 50, 30)
    [] t.kind = "WitnessExhaustion" ->
         Scene("Witness Exhaustion", Group, Row("Point", 8, <<"Step 0", "Step 1", "Step 2">>), 40, 30)
    [] t.kind = "NANDCompleteness" ->
         Scene("NAND Completeness", Group, Row("Cube", 15, <<"NOT", "AND", "OR">>), 50, 30)
    [] OTHER ->
         [Scene(t.name, [Group EXCEPT !.label = t.name], <<>>, 100, 100) EXCEPT !.bounds = <<0, 0, 100, 100>>]

(***************************************************************************)
(* Renderer.  A picture is its format, its head and the sequence of what   *)
(* is written below it.                                                    *)
(***************************************************************************)
Picture(format, head, elements) == [format |-> format, head |-> head, elements |-> elements]
NoPicture == Picture("", <<>>, <<>>)
\* In SVG every shape but a group, then its label, the root before its children.
render_node_svg(n, left, top) ==
  (IF n.geometry = "Group" THEN <<>> ELSE <<<<n.geometry, n.size, n.x - left, n.y - top>>>>)
  \o (IF n.label = "" THEN <<>> ELSE <<<<"text", n.label, n.x - left - 10, n.y - top - 20>>>>)
render_svg(scene) ==
  LET draw(n) == render_node_svg(n, scene.bounds[1], scene.bounds[2]) IN
  Picture("SVG", <<scene.name, scene.bounds>>,
          FlattenSeq([i \in 1 .. Len(scene.children) + 1 |->
                        draw((<<scene.root>> \o scene.children)[i])]))
\* On the canvas spheres and cubes only, and no labels.
render_canvas(scene) ==
  LET drawn == SelectSeq(<<scene.root>> \o scene.children,
                         LAMBDA n : n.geometry \in {"Sphere", "Cube"})
  IN Picture("Canvas", <<scene.name, scene.bounds>>, [i \in DOMAIN drawn |->
       <<drawn[i].geometry, drawn[i].size, drawn[i].x, drawn[i].y>>])
\* The others write down how to make a picture, the same for every scene.
render_scene(scene, format) ==
  CASE format = "SVG" -> render_svg(scene)
    [] format = "Canvas" -> render_canvas(scene)
    [] OTHER -> Picture(format, <<"specification">>, <<>>)

(***************************************************************************)
(* Receipts and the pipeline.                                              *)
(***************************************************************************)
sha256(bytes) == <<"sha256", bytes>>
Receipt(theorem, format, bytes) ==
  [theorem_name |-> theorem.name, format |-> format, hash |-> sha256(bytes), size |-> Len(bytes.elements)]
DefaultReceipt == [theorem_name |-> "", format |-> "SVG", hash |-> <<>>, size |-> 0]
\* Neither the name nor the format is compared.
verify_receipt(r, bytes) == r.hash = sha256(bytes) /\ r.size = Len(bytes.elements)

NewPipeline(theorem) ==
  [theorem |-> theorem, scene |-> from_theorem(theorem), rendered |-> NoPicture, receipt |-> DefaultReceipt]
ArtInit == /\ pipeline \in {NewPipeline(t) : t \in Theorems}
           /\ gallery = {} /\ kept = {}
Replace(theorem) == pipeline' = NewPipeline(theorem) /\ UNCHANGED <<gallery, kept>>

\* Mutant: sealed before the new picture takes the place of the old one.
X_render(format) ==
  /\ Cardinality(gallery) < MaxRenders
  /\ pipeline' = [pipeline EXCEPT !.rendered = render_scene(pipeline.scene, format),
                    !.receipt = Receipt(pipeline.theorem, format, pipeline.rendered)]
  /\ gallery' = gallery \cup {[theorem |-> pipeline.theorem, format |-> format,
                               bytes |-> pipeline'.rendered]}
  /\ kept' = kept \cup {pipeline'.receipt}
render(format) ==
  LET picture == render_scene(pipeline.scene, format) IN
  /\ Cardinality(gallery) < MaxRenders
  /\ pipeline' = [pipeline EXCEPT !.rendered = picture,
                                  !.receipt = Receipt(pipeline.theorem, format, picture)]
  /\ gallery' = gallery \cup {[theorem |-> pipeline.theorem, format |-> format, bytes |-> picture]}
  /\ kept' = kept \cup {pipeline'.receipt}
ArtNext == (\E t \in Theorems : Replace(t)) \/ (\E f \in Formats : render(f))

ArtSpec == ArtInit /\ [][ArtNext]_artVars

(***************************************************************************)
(* Property                                                                *)
(***************************************************************************)

\* Of the receipts that pipelines make (receipt_from_artifact is public and seals
\* whatever bytes it is given, under any name and format): the receipt of a
\* pipeline verifies its last picture and, before the first, nothing.  Every
\* picture ever made has a receipt that verifies it.  A receipt verifies pictures
\* of its own format only and, where the format draws the scene at all, only of
\* theorems that have the scene of a theorem of its name: name and proof steps of
\* a theorem of a known kind are never drawn.  In the other five formats it is as
\* good for the picture of any theorem.
Draws(format) == format \in {"SVG", "Canvas"}
SameScene(r, a) == \E b \in gallery : /\ b.theorem.name = r.theorem_name /\ b.format = r.format
                                      /\ from_theorem(b.theorem) = from_theorem(a.theorem)
ReceiptsSealPictures ==
  /\ pipeline.rendered = NoPicture => pipeline.receipt = DefaultReceipt
  /\ pipeline.rendered # NoPicture => verify_receipt(pipeline.receipt, pipeline.rendered)
  /\ \A a \in gallery : ~verify_receipt(DefaultReceipt, a.bytes)
  /\ \A r \in kept, a \in gallery :
       /\ verify_receipt(r, a.bytes) =>
            a.format = r.format /\ (Draws(a.format) => SameScene(r, a))
       /\ a.format = r.format /\ ~Draws(a.format) => verify_receipt(r, a.bytes)
  /\ \A a \in gallery : \E r \in kept : verify_receipt(r, a.bytes)
=============================================================================
