----------------------------- MODULE MCBackOffice -----------------------------
(***************************************************************************)
(* TLC instance of the question import, of marking, of the catalogue       *)
(* loader and of entitlements with their drift checks.  They share no row  *)
(* the models keep, so one behaviour runs one of them, chosen by `scene`.  *)
(***************************************************************************)
EXTENDS Import, Marking, Catalogue, Entitlement

VARIABLE scene

backOfficeVars == <<importVars, markingVars, catalogueVars, entitlementVars, scene>>

-----------------------------------------------------------------------------
(* Workbooks: a whole one; its first question retyped; the same reworded,  *)
(* without its image; and one whose weights are missing.                   *)

LOCAL Choice(code, correct, weight, image) ==
    [code |-> code, correct |-> correct, weight |-> weight, image |-> image]
LOCAL Line(code, type, passage, options) ==
    [code |-> code, type |-> type, status |-> "draft", passage |-> passage, image |-> NoImage,
     options |-> options, statements |-> {}, partial |-> "none", number |-> NoWeight, tolerance |-> 0]
LOCAL Book(questions, assets, files) ==
    [sheets |-> {"Instructions", "Questions"}, template |-> "2.1", files |-> files,
     passages |-> <<[code |-> "p", image |-> NoImage]>>, questions |-> questions, assets |-> assets]
LOCAL File(path) == [path |-> path, symlink |-> FALSE, image |-> TRUE, oversized |-> FALSE]
LOCAL Picture == <<"images", "options", "a">>
LOCAL TwoChoices(image) == {Choice("a", TRUE, 1, image), Choice("b", FALSE, NoWeight, NoImage)}

MCWorkbook ==
    [ whole |->
        [Book(<<Line("q1", "single_choice", "p", TwoChoices(Picture)),
                [Line("q2", "statement_true_false", NoPassage, {})
                   EXCEPT !.statements = {[code |-> "s", expected |-> TRUE]}]>>,
              <<>>, {File(Picture)})
           EXCEPT !.passages = <<[code |-> "p", image |-> Picture]>>],
      retyped |->
        Book(<<[Line("q1", "numeric", "p", {}) EXCEPT !.number = 1]>>,
             <<[owner |-> "p", role |-> "passage", option |-> NoImage, image |-> Picture]>>,
             {File(Picture)}),
      reworded |-> Book(<<Line("q1", "single_choice", "p", TwoChoices(NoImage))>>, <<>>, {}),
      blank    |-> Book(<<Line("q1", "weighted_choice", "p", TwoChoices(NoImage))>>, <<>>, {}) ]

-----------------------------------------------------------------------------
(* Papers: a cognitive and a situational question; the same after the      *)
(* options were replaced under the key; a section that allows what its     *)
(* scorer cannot grade; and one paper for each other type.                 *)

MCStructure ==
    [ cog |-> {"single_choice", "multiple_choice", "true_false", "numeric"},
      sit |-> {"weighted_choice", "single_choice"} ]

LOCAL Question(section, type, key, codes) ==
    [section |-> section, type |-> type, key |-> key, codes |-> codes]
LOCAL Single == Question("cog", "single_choice", SingleKey("a"), {"a", "b"})
LOCAL Rated  == Question("sit", "weighted_choice", WeightedKey([a |-> 2, b |-> 1]), {"a", "b"})
MCPapers ==
    { [i1 |-> Single, i2 |-> Rated],
      [i1 |-> Single, i2 |-> [Rated EXCEPT !.codes = {"a", "c"}]],
      [i1 |-> Single, i2 |-> Question("sit", "single_choice", SingleKey("a"), {"a", "b"})],
      [i1 |-> Question("cog", "multiple_choice", MultipleKey({"a"}), {"a", "b"})],
      [i1 |-> Question("cog", "true_false", TrueFalseKey([a |-> TRUE]), {"a"})],
      [i1 |-> Question("cog", "numeric", NumericKey(1, 0), {})] }

LOCAL Scorers(correct, incorrect, blank) ==
    [ cog |-> [kind |-> "binary_choice", correct |-> correct, incorrect |-> incorrect, blank |-> blank],
      sit |-> [kind |-> "weighted_option", blank |-> blank] ]
LOCAL Scoring(scorers, thresholds) ==
    [maxScores |-> [cog |-> 5, sit |-> 5], scorers |-> scorers, thresholds |-> thresholds]
LOCAL Pass(kind, section, value) == [kind |-> kind, section |-> section, value |-> value]
MCRules ==
    { Scoring(Scorers(5, 0, 0),
             <<Pass("section_score_gte", "cog", 5), Pass("no_threshold", NoValue, NoValue)>>),
      Scoring(Scorers(4, -1, 1),
             <<Pass("total_score_gte", NoValue, 3), Pass("selected_section_minimum", "sit", NoValue)>>),
      Scoring(Scorers(4, -1, 0), <<>>),
      Scoring([cog |-> [kind |-> "weighted_option", blank |-> 0]],
             <<Pass("section_score_gte", "cog", NoValue)>>) }
MCReplies ==
    { Choose("a"), Choose("b"), Choose("c"), ChooseSome(<<"a", "b">>), ChooseSome(<<"a", "a">>),
      Judge([a |-> TRUE]), Give(TRUE), Give(FALSE) }

-----------------------------------------------------------------------------
(* Catalogue files: two products; the same with their SKUs swapped; the    *)
(* first SKU given to another product; and one whose policy codes collide  *)
(* with those of another ("a" + "b_c" is "a_b" + "c").                     *)

MCPolicyCode ==
    [k \in Codes \X Components |-> IF k = <<"a_b", "c">> THEN <<"a", "b_c">> ELSE k]

LOCAL Product(sku, code, offer, part, target) ==
    [sku |-> sku, code |-> code, offer |-> offer, parts |-> [c \in {part} |-> target]]

MCCatalogues ==
    LET first  == Product("1", "a", "oa", "b_c", "program")
        second == Product("2", "b", "ob", "c", "batch")
    IN  { {first, second},
          {[first EXCEPT !.sku = "2"], [second EXCEPT !.sku = "1"]},
          {Product("1", "a_b", "ob", "c", "program")},
          {first, Product("2", "a_b", "ob", "c", "program")} }

-----------------------------------------------------------------------------
(* Policies: for life, closed by its component on day 2; a fixed window,   *)
(* opened by its component; and one that cannot be resolved at a payment.  *)

LOCAL Claim(target, startsAt, endsAt) == [target |-> target, startsAt |-> startsAt, endsAt |-> endsAt]
LOCAL Validity(mode, startsAt, endsAt) ==
    [mode |-> mode, startsAt |-> startsAt, endsAt |-> endsAt, days |-> NoDate]
MCPolicy ==
    << [validity |-> Validity("lifetime", NoDate, NoDate), claims |-> <<Claim("batch", NoDate, 2)>>],
       [validity |-> Validity("fixed_window", 1, 2),
        claims |-> <<Claim("program", NoDate, NoDate), Claim("batch", 1, NoDate)>>],
       [validity |-> Validity("through_program_or_batch_end", NoDate, NoDate),
        claims |-> <<Claim("batch", NoDate, NoDate)>>] >>

-----------------------------------------------------------------------------

BackOfficeInit ==
    /\ ImportInit /\ MarkingInit /\ CatalogueInit /\ EntitlementInit
    /\ scene \in {"import", "marking", "catalogue", "entitlement"}
    /\ scene # "marking" =>
         /\ paper = CHOOSE p \in MCPapers : \A i \in DOMAIN p : p[i].type \in MCStructure[p[i].section]
         /\ pinned = CHOOSE k \in MCRules : ConsistentPolicy(k)

InImport(A) ==
    scene = "import" /\ A /\ UNCHANGED <<scene, markingVars, catalogueVars, entitlementVars>>
InMarking(A) ==
    scene = "marking" /\ A /\ UNCHANGED <<scene, importVars, catalogueVars, entitlementVars>>
InCatalogue(A) ==
    scene = "catalogue" /\ A /\ UNCHANGED <<scene, importVars, markingVars, entitlementVars>>
InEntitlement(A) ==
    scene = "entitlement" /\ A /\ UNCHANGED <<scene, importVars, markingVars, catalogueVars>>

BackOfficeNext ==
    \/ InImport(ImportNext)
    \/ InMarking(MarkingNext)
    \/ InCatalogue(CatalogueNext)
    \/ InEntitlement(EntitlementNext)

BackOfficeSpec == BackOfficeInit /\ [][BackOfficeNext]_backOfficeVars

=============================================================================
