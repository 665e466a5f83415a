\* The folders: a tree of two and a volume, two files, any four events from outside.
SPECIFICATION FairSpec
CONSTANTS
    home = home
    album = album
    volume = volume
    photo = photo
    picture = picture
    NoFolder = NoFolder
    Folders <- TheFolders
    Files <- TheFiles
    Path <- ThePath
    FolderOf <- TheFolderOf
    Volumes = {volume}
    Disk <- TheDisk
    Saved <- TheHistory
    MaxInputs = 4
INVARIANT LoadTypeOK
INVARIANT HistoryIsPath
INVARIANT WindowFollowsDisk
PROPERTY BrowserSettles
\* Without requests the browser rests.
CHECK_DEADLOCK FALSE
