SPECIFICATION LiveSpec
INVARIANT FtpOnlyWhenConnected
PROPERTY BootEnds
