--------------------------- MODULE ResponseParser ----------------------------
(***************************************************************************)
(* The OpenAI client and parse_classification_response: from the text the  *)
(* model returns to a classification or a reason for a failure, both of    *)
(* which settle the lead.                                                  *)
(* A text is a sequence of pieces; white space between them plays no part. *)
(***************************************************************************)
EXTENDS Naturals, Sequences, SequencesExt

CONSTANT MaxPieces      \* bound: pieces of a text

ASSUME PiecesAssumption == MaxPieces \in Nat

VARIABLES
  modelText,   \* what the model has written so far
  textResult   \* what became of it

parserVars == <<modelText, textResult>>

\* "open" and "close" are the braces and "fence" is three backticks.  "payload" stands
\* for members that LeadClassificationPayload validates, without braces (outside an
\* object it is mere prose), and "scalar" for any other JSON value without braces.
Pieces == {"open", "close", "fence", "json", "payload", "scalar"}
ParseResults == {"classified", "invalid_json", "invalid_json_shape",
            "invalid_classification_payload"}

ParserTypeOK ==
  /\ modelText \in Seq(Pieces) /\ Len(modelText) <= MaxPieces
  /\ textResult \in ParseResults \cup {"none", "raised"}

ParserInit == modelText = <<>> /\ textResult = "none"

ModelWrites(piece) ==
  /\ textResult = "none" /\ Len(modelText) < MaxPieces
  /\ modelText' = Append(modelText, piece)
  /\ UNCHANGED textResult

-----------------------------------------------------------------------------
\* _strip_markdown_json_fence: only a fence around the whole text.
StripFence(text) ==
  IF Len(text) > 1 /\ text[1] = "fence" /\ Last(text) = "fence"
  THEN SubSeq(text, IF text[2] = "json" THEN 3 ELSE 2, Len(text) - 1)
  ELSE text

\* Mutated form: up to the first closing brace.
UpToFirst(text, open) == SelectInSeq(text, LAMBDA p : p = "close")

\* rfind("}")
ClosingBrace(text, open) == SelectLastInSeq(text, LAMBDA p : p = "close")

\* _extract_json_object: from the first opening brace to the last closing one.
ExtractObject(text) ==
  LET open == SelectInSeq(text, LAMBDA p : p = "open")
      close == ClosingBrace(text, open)
  IN IF open = 0 \/ close <= open THEN text ELSE SubSeq(text, open, close)

\* json.loads, the check for an object, and the validation of the payload.
ResultOf(object) ==
  CASE object = <<"open", "payload", "close">> -> "classified"
    [] object = <<"open", "close">> -> "invalid_classification_payload"
    [] object = <<"scalar">> -> "invalid_json_shape"
    [] OTHER -> "invalid_json"

ParseResponse ==
  /\ textResult = "none"
  /\ textResult' = ResultOf(ExtractObject(StripFence(modelText)))
  /\ UNCHANGED modelText

\* OpenAIClassificationError: no text at all is no answer, and the lead is retried; a
\* blank one is an answer.
NoText ==
  /\ textResult = "none" /\ modelText = <<>>
  /\ textResult' = "raised"
  /\ UNCHANGED modelText

ParserNext == (\E piece \in Pieces : ModelWrites(piece)) \/ NoText \/ ParseResponse

ParserSpec == ParserInit /\ [][ParserNext]_parserVars

-----------------------------------------------------------------------------
(* Properties.                                                             *)

\* The text is prose without an opening brace, the object, prose without a closing one.
Holds(inside) ==
  LET object == <<"open">> \o inside \o <<"close">> IN
  \E at \in DOMAIN modelText :
    LET end == at + Len(object) - 1 IN
    /\ end <= Len(modelText) /\ SubSeq(modelText, at, end) = object
    /\ \A i \in 1..(at - 1) : modelText[i] # "open"
    /\ \A i \in (end + 1)..Len(modelText) : modelText[i] # "close"

\* An object in the text is understood whatever prose, fences and labels stand around
\* it, as long as they cannot be taken for its braces, and nothing else is: no text
\* is classified by a guess, and a failure names its reason, since both settle the
\* lead for good.
AnswersAreUnderstood ==
  textResult # "none" =>
    /\ textResult = "classified" <=> Holds(<<"payload">>)
    /\ textResult = "invalid_classification_payload" <=> Holds(<<>>)
    /\ textResult = "invalid_json_shape" =>
         {p \in Pieces : \E i \in DOMAIN modelText : modelText[i] = p}
           \subseteq {"scalar", "fence", "json"}
=============================================================================
