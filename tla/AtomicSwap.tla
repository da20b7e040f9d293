----------------------------- MODULE AtomicSwap -----------------------------
(***************************************************************************)
(* What the escrow promises, without instructions, signatures, rent or     *)
(* program calls: an offer takes an account into custody, and gives it up  *)
(* only in the one step that also pays the price.                          *)
(***************************************************************************)
EXTENDS Naturals

CONSTANTS Party, Account, Offer, Asset, Amount, Nobody, Custody

VARIABLES account, offer

NoAccount == [asset |-> Nobody, holder |-> Nobody, amount |-> 0]
NoOffer == [seller |-> Nobody, vault |-> Nobody, payTo |-> Nobody, price |-> 0]

Init ==
  /\ \A k \in Account : account[k].holder # Custody
  /\ offer = [o \in Offer |-> NoOffer]

\* A seller gives an account into custody and names a price and where to pay it.
Post(o, seller, vault, payTo, price) ==
  /\ offer[o] = NoOffer
  /\ account[vault].holder = seller
  /\ offer' = [offer EXCEPT ![o] = [seller |-> seller, vault |-> vault, payTo |-> payTo, price |-> price]]
  /\ account' = [account EXCEPT ![vault].holder = Custody]

\* Goods and price change hands in one step; nothing else changes.
Settle(o, taker, src, dst) ==
  LET vault == offer[o].vault
      payTo == offer[o].payTo
      price == offer[o].price
      goods == account[vault].amount
  IN
  /\ offer[o] # NoOffer
  /\ payTo \in Account
  /\ account[src].holder = taker
  /\ account[src].asset = account[payTo].asset
  /\ account[src].amount >= price
  /\ account[dst].asset = account[vault].asset
  /\ payTo = vault => price = 0
  /\ dst = vault => goods = 0
  /\ offer' = [offer EXCEPT ![o] = NoOffer]
  /\ account' = [k \in Account |->
       IF k = vault THEN NoAccount
       ELSE [account[k] EXCEPT
               !.amount = @ + (IF k = payTo THEN price ELSE 0) + (IF k = dst THEN goods ELSE 0)
                            - (IF k = src THEN price ELSE 0)]]

\* Parties pay one another, and may pay into an account in custody.
Pay(party, src, dst, n) ==
  /\ account[src].holder = party
  /\ account[src].asset = account[dst].asset
  /\ n <= account[src].amount
  /\ account' = [k \in Account |->
       [account[k] EXCEPT !.amount = @ + (IF k = dst THEN n ELSE 0) - (IF k = src THEN n ELSE 0)]]
  /\ UNCHANGED offer

OpenAccount(party, k, asset) ==
  /\ account[k] = NoAccount
  /\ account' = [account EXCEPT ![k] = [asset |-> asset, holder |-> party, amount |-> 0]]
  /\ UNCHANGED offer

CloseAccount(party, k) ==
  /\ account[k].holder = party
  /\ account[k].amount = 0
  /\ account' = [account EXCEPT ![k] = NoAccount]
  /\ UNCHANGED offer

Next ==
  \/ \E o \in Offer, seller \in Party, vault \in Account, payTo \in Account \cup Asset, price \in Amount :
       Post(o, seller, vault, payTo, price)
  \/ \E o \in Offer, taker \in Party, src, dst \in Account : Settle(o, taker, src, dst)
  \/ \E party \in Party, src, dst \in Account, n \in Amount : Pay(party, src, dst, n)
  \/ \E party \in Party, k \in Account, asset \in Asset : OpenAccount(party, k, asset)
  \/ \E party \in Party, k \in Account : CloseAccount(party, k)

Spec == Init /\ [][Next]_<<account, offer>>

=============================================================================
