-------------------------- MODULE MCChannelDelivery --------------------------
(* ChannelDelivery on small instances.                                     *)
EXTENDS ChannelDelivery

CONSTANTS e1, e2, slack, telegram, slash

\* The two events announce one Slack message, or one slash command in Slack.
SiblingsOnly == {[e \in {e1, e2} |-> slack], [e \in {e1, e2} |-> slash]}

\* One event, of a Slack or Telegram message or of a slash command.
Alone == {[e \in {e1} |-> slack], [e \in {e1} |-> telegram], [e \in {e1} |-> slash]}
=============================================================================
