------------------------------ MODULE SyncTexts ------------------------------
(***************************************************************************)
(* The mirror with the texts it carries: what MessageSync posts, part by    *)
(* part, is what TextSplit makes of a comment rendered for Slack.           *)
(***************************************************************************)
EXTENDS MessageSync, TextSplit

CONSTANTS
  Bodies,       \* the lines of each text, converted for Slack
  Heading       \* "<url|commented> on repo#n:"

\* The comment of a pull request, quoted under a line that says where it is from.
Rendered(t) == <<Heading>> \o Blockquote(Bodies[t])

ASSUME SyncTextsAssumption ==
  /\ Heading \in Line
  /\ \A t \in Texts : Bodies[t] \in Seq(Line) /\ Parts[t] = Split(Rendered(t))

-----------------------------------------------------------------------------
\* Every message the app posts is within Slack's limit, and its fences come in
\* pairs, or it is the whole of a text whose author left one open.
PartsRender ==
  \A m \in DOMAIN messages :
    LET part == messages[m].part IN
    messages[m].by = "app" =>
      /\ Length(part) <= Limit
      /\ ~Balanced(part) => \E t \in Texts : part = Rendered(t)

\* Whatever was posted, edited or deleted on the way there: once the events of a
\* live comment were handled one by one, its messages read one after another hold
\* the lines of its latest text, all of them, once and in order, and what is code
\* in the text is code on Slack.
ReadsAsWritten ==
  \A c \in DOMAIN comments :
    LET ms == ShownFor(c) IN
    comments[c].of = 0 /\ comments[c].live /\ Settled(<<"github", c>>) =>
      Contents([k \in DOMAIN ms |-> messages[ms[k]].part])
        = Content(Whole(Rendered(comments[c].text)))
=============================================================================
