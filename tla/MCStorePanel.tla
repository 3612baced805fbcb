---------------------------- MODULE MCStorePanel ----------------------------
(* StorePanel for TLC: an app of either sort beside a Decky plugin.        *)
EXTENDS StorePanel, TLC

MCCatalogs == {"game" :> k @@ "tool" :> "deckyplugin" : k \in {"flatpak", "appimage"}}
MCDisks == {"game" :> d @@ "tool" :> {} : d \in {{}, {"rival"}}}
=============================================================================
