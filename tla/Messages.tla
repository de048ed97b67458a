------------------------------- MODULE Messages --------------------------------
\* The message that announces a scorecard: as the worker sends it
\* (src/app/notifications.py), and as the integrations screen shows it to those who
\* have no token (src/frontend/src/features/integrations).
EXTENDS Cases, InterviewStatus, Integers, SequencesExt

CONSTANT MaxEvaluations   \* bound: competencies in a scorecard

ASSUME MessagesAssumption == MaxEvaluations \in Nat

Verdicts == <<"approve", "reject">>
TOKEN_PLACEHOLDER == "placeholder"
NoToken == ""
NoScorecardYet == <<[score |-> 0, verified |-> "none"]>>

\* The base of a link is a host and the slashes it was configured with.
Bases == [host : {"h"}, slashes : 0 .. 1]

-------------------------------------------------------------------------------
(* The worker. *)

BuildDecisionUrl(base, id, action, token) ==
    [host |-> base.host, slashes |-> base.slashes + 1, id |-> id, action |-> action, token |-> token]

\* is True, is False, else.
Marker(verified) == CASE verified = "yes" -> "ok" [] verified = "no" -> "alert" [] OTHER -> "not verified"

Header(id) == <<[type |-> "header"], [type |-> "section", id |-> id], [type |-> "divider"]>>

\* A section for each competency, and a divider after each.
EvaluationSection(k, evaluation, status) == [type |-> "section", of |-> k, score |-> evaluation.score, status |-> status]
EvaluationBlocks(scorecard) ==
    [n \in 1 .. 2 * Len(scorecard) |->
        LET k == (n + 1) \div 2
        IN  IF n % 2 = 0 THEN [type |-> "divider"]
            ELSE EvaluationSection(k, scorecard[k], Marker(scorecard[k].verified))]

Buttons(urls) == <<[type |-> "actions",
                    elements |-> [k \in DOMAIN Verdicts |-> [value |-> Verdicts[k], url |-> urls[k]]]]>>

\* SlackNotification.notify_scorecard
SlackBlocks(base, id, scorecard, token) ==
    Header(id) \o EvaluationBlocks(scorecard)
      \o (IF token = NoToken THEN <<>>
          ELSE Buttons([k \in DOMAIN Verdicts |-> BuildDecisionUrl(base, id, Verdicts[k], token)]))

\* WebhookNotification.notify_scorecard
WebhookBody(base, id, scorecard, token) ==
    [id |-> id, scorecard |-> scorecard,
     urls |-> IF token = NoToken THEN <<>>
              ELSE [k \in DOMAIN Verdicts |-> BuildDecisionUrl(base, id, Verdicts[k], token)]]

\* GET /interviews/{id}/decision, as a browser asks for it: a second slash is
\* another path.
DecisionEndpoint(row, url) ==
    IF url.slashes # 1 \/ url.id # row.id THEN "not found"
    ELSE IF row.token = NoToken \/ url.token # row.token THEN "unauthorized"
    ELSE IF row.status # AGUARDANDO THEN "refused"
    ELSE IF url.action = "approve" THEN APROVADA ELSE REJEITADA

-------------------------------------------------------------------------------
(* The screen. *)

DecisionUrl(base, id, action) ==
    [host |-> base.host, slashes |-> 1, id |-> id, action |-> action, token |-> TOKEN_PLACEHOLDER]

\* statusMarker
StatusMarker(verified) == CASE verified = "yes" -> "ok" [] verified = "no" -> "alert" [] OTHER -> "not verified"

\* mutant: one divider between competencies, none after the last
UndividedSlackPayload(base, id, scorecard, hasApprovalToken) ==
    Header(id)
      \o [n \in 1 .. 2 * Len(scorecard) - 1 |->
            LET k == (n + 1) \div 2
            IN  IF n % 2 = 0 THEN [type |-> "divider"]
                ELSE EvaluationSection(k, scorecard[k], StatusMarker(scorecard[k].verified))]
      \o (IF hasApprovalToken THEN Buttons([k \in DOMAIN Verdicts |-> DecisionUrl(base, id, Verdicts[k])]) ELSE <<>>)

\* buildSlackPayload
BuildSlackPayload(base, id, scorecard, hasApprovalToken) ==
    Header(id)
      \o [n \in 1 .. 2 * Len(scorecard) |->
            LET k == (n + 1) \div 2
            IN  IF n % 2 = 0 THEN [type |-> "divider"]
                ELSE EvaluationSection(k, scorecard[k], StatusMarker(scorecard[k].verified))]
      \o (IF hasApprovalToken THEN Buttons([k \in DOMAIN Verdicts |-> DecisionUrl(base, id, Verdicts[k])]) ELSE <<>>)

\* buildWebhookPayload
BuildWebhookPayload(base, id, scorecard, hasApprovalToken) ==
    [id |-> id, scorecard |-> scorecard,
     urls |-> IF hasApprovalToken THEN [k \in DOMAIN Verdicts |-> DecisionUrl(base, id, Verdicts[k])] ELSE <<>>]

Previewable(rows) == Only(rows, {k \in DOMAIN rows : rows[k].scorecard # NoScorecardYet})

\* selectedId ?? previewable[0]?.id ?? null, for which "" stands.
PreviewId(rows, selected) ==
    IF selected # "" THEN selected
    ELSE IF Previewable(rows) = <<>> THEN "" ELSE Previewable(rows)[1].id

\* slackPayload: the blocks of the first row with that id, or none.
Preview(base, rows, selected) ==
    LET found == {k \in DOMAIN rows : rows[k].id = PreviewId(rows, selected)}
        row == rows[Min(found)]
    IN  IF found = {} \/ (found # {} /\ row.scorecard = NoScorecardYet) THEN <<>>
        ELSE BuildSlackPayload(base, row.id, row.scorecard, row.status = AGUARDANDO)

-------------------------------------------------------------------------------
(* The calls considered. *)

ScorecardsUpTo(n) == BoundedSeq([score : {1, 5}, verified : {"yes", "no", "unknown", "absent"}], n)

\* A row has a scorecard from AGUARDANDO on, and a token in AGUARDANDO alone
\* (StatusBacked and LinkWorksUntilDecision of the pipeline).
RowsOf(id) ==
    {[id |-> id, status |-> s, token |-> IF s = AGUARDANDO THEN "t" ELSE NoToken, scorecard |-> c] :
        s \in {AGUARDANDO} \cup TERMINAL_STATUSES, c \in ScorecardsUpTo(MaxEvaluations)}
FewRowsOf(id) ==
    {[id |-> id, status |-> s, token |-> IF s = AGUARDANDO THEN "t" ELSE NoToken,
      scorecard |-> IF s = PONTUANDO THEN NoScorecardYet ELSE <<>>] : s \in {PONTUANDO, AGUARDANDO, APROVADA}}

MessageCalls ==
    [kind : {"message"}, base : Bases, row : RowsOf("i1")]
      \cup [kind : {"preview"}, rows : {<<>>} \cup {<<a>> : a \in FewRowsOf("i1")}
                                          \cup {<<a, b>> : a \in FewRowsOf("i1"), b \in FewRowsOf("i2")},
            selected : {"", "i1", "i2"}]

-------------------------------------------------------------------------------
(* What must hold. *)

WithoutToken(url) == [url EXCEPT !.token = TOKEN_PLACEHOLDER]
WithoutTokens(buttons) == [b \in DOMAIN buttons |-> [value |-> buttons[b].value, url |-> WithoutToken(buttons[b].url)]]
Redacted(blocks) ==
    [k \in DOMAIN blocks |->
        IF blocks[k].type # "actions" THEN blocks[k]
        ELSE [type |-> "actions", elements |-> WithoutTokens(blocks[k].elements)]]

\* The screen shows the message of every scorecard as the worker would send it now,
\* block by block, the token apart: its buttons while there is a token and not
\* after.  It cleans the base of the links, which the worker does not, so this is
\* for a base that needs no cleaning (blockKit.ts:1-16 "if this file and
\* app/notifications.py ever disagree, the Python wins and this is the bug").
PreviewIsWhatIsSent ==
    input.kind = "message" /\ input.base.slashes = 0 =>
        LET row == input.row
            sent == SlackBlocks(input.base, row.id, row.scorecard, row.token)
            posted == WebhookBody(input.base, row.id, row.scorecard, row.token)
        IN  /\ Preview(input.base, <<row>>, "") = Redacted(sent)
            /\ BuildWebhookPayload(input.base, row.id, row.scorecard, row.status = AGUARDANDO)
                 = [posted EXCEPT !.urls = [k \in DOMAIN @ |-> WithoutToken(@[k])]]

\* While an interview waits, every button of its message decides what it says; the
\* message previewed has no button that works, and that of a settled interview has
\* none at all (notifications.py:27-36, 116-147; IntegrationsView.tsx:153-163 "o
\* segundo clique no mesmo link responde 401", "nunca exibido").
ButtonsDecideWhatTheySay ==
    input.kind = "message" /\ input.base.slashes = 0 =>
        LET row == input.row
            sent == SlackBlocks(input.base, row.id, row.scorecard, row.token)
            buttons(blocks) == UNION {{blocks[k].elements[b] : b \in DOMAIN blocks[k].elements} :
                                        k \in {k \in DOMAIN blocks : blocks[k].type = "actions"}}
        IN  /\ {[v |-> b.value, to |-> DecisionEndpoint(row, b.url)] : b \in buttons(sent)}
                 = IF row.status = AGUARDANDO
                   THEN {[v |-> "approve", to |-> APROVADA], [v |-> "reject", to |-> REJEITADA]} ELSE {}
            /\ \A b \in buttons(Preview(input.base, <<row>>, "")) : DecisionEndpoint(row, b.url) = "unauthorized"

\* Before anyone chooses, the screen previews a message as soon as one interview has
\* a scorecard, the newest such; and what a person chose from what is offered is
\* what is shown (IntegrationsView.tsx:44-71).
PreviewIsTheOneChosen ==
    input.kind = "preview" =>
        LET offered == Previewable(input.rows)
            base == [host |-> "h", slashes |-> 0]
            shown == Preview(base, input.rows, input.selected)
            ids == {offered[k].id : k \in DOMAIN offered}
        IN  /\ input.selected = "" => (shown = <<>> <=> offered = <<>>)
            /\ input.selected = "" /\ offered # <<>> => shown[2].id = offered[1].id
            /\ input.selected \in ids => shown # <<>> /\ shown[2].id = input.selected

\* The approver gets the message the preview shows, with buttons that work where
\* and while they should.
PreviewIsTrue == PreviewIsWhatIsSent /\ ButtonsDecideWhatTheySay /\ PreviewIsTheOneChosen
===============================================================================
