--------------------------- MODULE MCBrowserLoad ---------------------------
(* Instances of BrowserLoad: a tree of folders, and a volume. *)
EXTENDS BrowserLoad, TLC

CONSTANTS home, album, volume, photo, picture

TheFolders == {home, album, volume}
TheFiles == {photo, picture}
ThePath == home :> <<home>> @@ album :> <<home, album>> @@ volume :> <<volume>>
TheFolderOf == photo :> album @@ picture :> home
TheDisk == {home, album, volume, picture}
TheHistory == <<volume>>
=============================================================================
