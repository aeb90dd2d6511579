SPECIFICATION SpecAll
CHECK_DEADLOCK FALSE
INVARIANTS NamesKept RecordsKept MasksKept FilesKept ChannelsKept NotesKept
PROPERTIES AllAnswered OthersKeep NumbersMean
