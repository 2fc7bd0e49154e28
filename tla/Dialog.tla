------------------------------- MODULE Dialog -------------------------------
(***************************************************************************)
(* The overlays of the game screen and the keyboard focus: what            *)
(* useDialogAccessibility does for RivalsOverlay, VaultSheet and           *)
(* CardDetailModal while snapshots re-render the screen beneath them.      *)
(*                                                                         *)
(* An element is a pair of the part of the page it is in and its place     *)
(* there: a trigger in the background, an item of a dialog, counted from 1 *)
(* (0 is the element with role "dialog"), or the body, where the focus is  *)
(* when no element has it.  The browser's part - moving the focus on Tab   *)
(* and on clicks, dropping it with the element that had it - is modelled   *)
(* from what the code relies on.  Cards of tier 1 stand for all open cards *)
(* and nobles, which open the same dialog.                                 *)
(***************************************************************************)
EXTENDS Integers, SequencesExt

CONSTANTS
  OpenCards,    \* open cards of tier 1 the game starts with
  MaxCard       \* bound on the cards dealt, numbered in order

ASSUME DialogAssumption == OpenCards \in Nat /\ MaxCard \in Nat /\ OpenCards <= MaxCard

VARIABLES
  market,       \* openMarketCardIds[1] as rendered: a sequence of cards
  dealt,        \* the cards dealt so far
  open,         \* openRivals, openVault, isCardDetailOpen: the dialogs open
  selected,     \* selectedCardId, 0 for null
  opener,       \* the element that opened the last dialog
  due,          \* a commit's effects have not run yet
  ui,           \* the document: see DialogInit
  reserve       \* the last reservation: the card in the dialog and the card sent

dialogVars == <<market, dealt, open, selected, opener, due, ui, reserve>>

Dialogs == {"rivals", "vault", "card"}
LastItem(d) == IF d = "vault" THEN 1 ELSE 2

Body == <<"body", 0>>
Trigger(t) == <<"background", t>>
Item(d, i) == <<d, i>>

\* 0 and -1 are the buttons that open the rivals and the vault.
TriggerOf(d, c) == Trigger(CASE d = "rivals" -> 0 [] d = "vault" -> -1 [] d = "card" -> c)
Triggers(cards) == {Trigger(0), Trigger(-1)} \cup {Trigger(cards[i]) : i \in DOMAIN cards}

DialogInit ==
  /\ market = [i \in 1 .. OpenCards |-> i] /\ dealt = OpenCards
  /\ open = {} /\ selected = 0 /\ opener = Body
  /\ due = FALSE
  /\ ui = [focus |-> Body,        \* document.activeElement
           inert |-> FALSE,       \* of #game-shell, with aria-hidden
           handlers |-> [d \in Dialogs |-> 0],   \* keydown listeners of each dialog
           active |-> {},         \* the dialogs whose effect has run
           previous |-> [d \in Dialogs |-> Body]] \* previousFocus of each effect
  /\ reserve = [shown |-> 0, sent |-> 0]

-----------------------------------------------------------------------------
(* The effect, for a document u in which the dialogs in shown and the cards *)
(* are rendered.                                                            *)

\* element.focus(): nothing happens for what is gone, inert or the body.
Focus(u, e, shown, cards) ==
  IF \/ e[1] \in shown
     \/ e \in Triggers(cards) /\ ~u.inert
  THEN [u EXCEPT !.focus = e] ELSE u

\* The function the effect returns, first without removing the listener.
CleanupListening(u, d, shown, cards) ==
  Focus([u EXCEPT !.active = @ \ {d}, !.inert = FALSE], u.previous[d], shown, cards)
Cleanup(u, d, shown, cards) ==
  Focus([u EXCEPT !.active = @ \ {d}, !.inert = FALSE,
                  !.handlers[d] = IF @ = 0 THEN 0 ELSE @ - 1],
        u.previous[d], shown, cards)

\* The effect, first looking for the previous focus too late.
EffectLate(u, d, shown, cards) ==
  LET focused == Focus([u EXCEPT !.inert = TRUE], Item(d, 1), shown, cards)
  IN  [focused EXCEPT !.active = @ \cup {d}, !.handlers[d] = @ + 1,
                      !.previous[d] = focused.focus]
Effect(u, d, shown, cards) ==
  Focus([u EXCEPT !.active = @ \cup {d}, !.handlers[d] = @ + 1, !.previous[d] = u.focus,
                  !.inert = TRUE],
        Item(d, 1), shown, cards)

\* Every render of the screen passes a new onClose, so every effect is cleaned
\* up and every open dialog runs it again, in the order of the tree.
CleanupIfActive(u, d, shown, cards) ==
  IF d \in u.active THEN Cleanup(u, d, shown, cards) ELSE u
EffectIfShown(u, d, shown, cards) ==
  IF d \in shown THEN Effect(u, d, shown, cards) ELSE u
RunEffects(u, shown, cards) ==
  LET rivals == CleanupIfActive(u, "rivals", shown, cards)
      vault == CleanupIfActive(rivals, "vault", shown, cards)
      clean == CleanupIfActive(vault, "card", shown, cards)
  IN  EffectIfShown(
        EffectIfShown(EffectIfShown(clean, "rivals", shown, cards), "vault", shown, cards),
        "card", shown, cards)

\* A commit: what is no longer rendered loses the focus and its listeners.
Commit(u, shown, cards) ==
  [u EXCEPT !.focus = IF @[1] \in shown \/ @ \in Triggers(cards) THEN @ ELSE Body,
            !.handlers = [d \in Dialogs |-> IF d \in shown THEN @[d] ELSE 0]]

\* Effects that are due run before the next render.
Settled == IF due THEN RunEffects(ui, open, market) ELSE ui

\* A click or a key: React renders and runs the effects before it returns.
RenderAtOnce(u, shown) ==
  /\ open' = shown
  /\ ui' = RunEffects(Commit(u, shown, market), shown, market)
  /\ due' = FALSE

-----------------------------------------------------------------------------

\* handleOpenCardDetail, onOpenRivals, onOpenVault: a trigger is clicked, or
\* has the focus and is pressed.  Behind an open dialog only keys reach it.
OpenDialog(d, c) ==
  /\ TriggerOf(d, c) \in Triggers(market) /\ ~ui.inert
  /\ open = {} \/ ui.focus = TriggerOf(d, c)
  /\ opener' = TriggerOf(d, c)
  /\ selected' = IF d = "card" THEN c ELSE selected
  /\ RenderAtOnce([Settled EXCEPT !.focus = TriggerOf(d, c)], open \cup {d})
  /\ UNCHANGED <<market, dealt, reserve>>

\* Escape, handled by the dialog that has the focus.
Escape(d) ==
  /\ d \in open /\ ui.focus[1] = d /\ ui.handlers[d] > 0
  /\ RenderAtOnce(Settled, open \ {d})
  /\ UNCHANGED <<market, dealt, selected, opener, reserve>>

\* A button that closes: every item but the last of the card's.
PressClose(d, i) ==
  /\ d \in open /\ i \in 1 .. LastItem(d)
  /\ d = "card" => i # LastItem(d)
  /\ RenderAtOnce([Settled EXCEPT !.focus = Item(d, i)], open \ {d})
  /\ UNCHANGED <<market, dealt, selected, opener, reserve>>

\* onReserve and onClose: handleReserveCard sends the first card of tier 1.
PressReserve ==
  /\ "card" \in open
  /\ reserve' = IF market = <<>> THEN reserve
                ELSE [shown |-> selected, sent |-> Head(market)]
  /\ RenderAtOnce([Settled EXCEPT !.focus = Item("card", LastItem("card"))], open \ {"card"})
  /\ UNCHANGED <<market, dealt, selected, opener>>

\* A snapshot, or the answer of a command: the screen is rendered again, and
\* the effects run some time later.  A card taken is replaced, or not.
Snapshot ==
  /\ \/ UNCHANGED <<market, dealt>>
     \/ \E i \in DOMAIN market :
          \/ /\ dealt < MaxCard
             /\ dealt' = dealt + 1
             /\ market' = [market EXCEPT ![i] = dealt + 1]
          \/ /\ market' = RemoveAt(market, i)
             /\ UNCHANGED dealt
  /\ ui' = Commit(Settled, open, market')
  /\ due' = TRUE
  /\ UNCHANGED <<open, selected, opener, reserve>>

EffectsRun ==
  /\ due /\ ui' = Settled
  /\ due' = FALSE
  /\ UNCHANGED <<market, dealt, open, selected, opener, reserve>>

MoveFocus(e) ==
  /\ ui' = [ui EXCEPT !.focus = e]
  /\ UNCHANGED <<market, dealt, open, selected, opener, due, reserve>>

\* Tab and Shift+Tab in a dialog.  handleKeyDown turns round at the ends; from
\* the dialog itself, Shift+Tab leaves the document, whose rest is inert.
TabNext(d, i) ==
  /\ d \in open /\ ui.focus = Item(d, i)
  /\ MoveFocus(Item(d, IF i = LastItem(d) THEN 1 ELSE i + 1))
TabBack(d, i) ==
  /\ d \in open /\ ui.focus = Item(d, i)
  /\ MoveFocus(IF i = 0 THEN Body ELSE Item(d, IF i = 1 THEN LastItem(d) ELSE i - 1))

\* Tab from outside: to a dialog, or to a trigger that is not inert.
TabFromBody ==
  /\ ui.focus = Body
  /\ \/ \E d \in open, i \in 1 .. 2 : i <= LastItem(d) /\ MoveFocus(Item(d, i))
     \/ ~ui.inert /\ \E e \in Triggers(market) : MoveFocus(e)

\* A click on the text of a dialog, or on the backdrop around it.
ClickDialog(d) == d \in open /\ MoveFocus(Item(d, 0))
ClickBackdrop == open # {} /\ MoveFocus(Body)

DialogNext ==
  \/ \E d \in {"rivals", "vault"} : OpenDialog(d, 0)
  \/ \E c \in 1 .. MaxCard : OpenDialog("card", c)
  \/ \E d \in Dialogs :
       \/ Escape(d) \/ ClickDialog(d)
       \/ \E i \in 0 .. 2 : PressClose(d, i) \/ TabNext(d, i) \/ TabBack(d, i)
  \/ PressReserve \/ Snapshot \/ EffectsRun \/ TabFromBody \/ ClickBackdrop

DialogSpec == DialogInit /\ [][DialogNext]_dialogVars

-----------------------------------------------------------------------------
(* Properties.                                                             *)

\* The elements named exist: the focus, the dialogs, the cards.
DialogTypeOK ==
  /\ open \subseteq Dialogs /\ ui.active \subseteq open
  /\ ui.focus = Body \/ ui.focus \in Triggers(market) \/ ui.focus[1] \in open
  /\ dealt \in 0 .. MaxCard /\ \A i \in DOMAIN market : market[i] \in 1 .. dealt

\* However often snapshots run the effect again, an open dialog listens to the
\* keys once, and the game behind it is inert exactly while a dialog is open.
OneListenerWhileOpen ==
  /\ \A d \in Dialogs : ui.handlers[d] = IF d \in open THEN 1 ELSE 0
  /\ ui.inert <=> open # {}

\* Two dialogs are never open together, though each has a flag of its own and
\* all share one background.
OneDialogAtATime == Cardinality(open) <= 1

\* While a dialog is open, the focus is never left in the game behind it.
FocusNotBehind == open # {} => ui.focus[1] # "background"

\* Listeners, background and focus belong to the one dialog that is open.
DialogInv == DialogTypeOK /\ OneListenerWhileOpen /\ OneDialogAtATime /\ FocusNotBehind

\* Closing a dialog gives the focus back to what opened it, if that is still
\* there: through every snapshot the effect hands its previousFocus on.
FocusReturns ==
  [][open # {} /\ open' = {} /\ opener \in Triggers(market) => ui'.focus = opener]_dialogVars

\* The plan for the screens: closing an overlay returns the focus to the
\* element that opened it.
FocusReturnsToTrigger == [][open # {} /\ open' = {} => ui'.focus = opener]_dialogVars

\* The same plan: each overlay traps the focus, and Escape closes it.  Escape
\* and Tab are heard only while the focus is in the dialog.
FocusTrapped == \A d \in open : ui.focus[1] = d

\* The dialog of a card offers to reserve it.
ReservesTheCardShown == reserve.sent = reserve.shown
=============================================================================
