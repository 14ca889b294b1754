------------------------------ MODULE Commands ------------------------------
(***************************************************************************)
(* The commands of wsnet.protocol: for each class the fields that to_data  *)
(* writes after the token and those that from_buffer reads there, in their *)
(* order, with how each is written and read.                               *)
(***************************************************************************)
EXTENDS Wire

\* Writer and reader have the same fields.
Both(fields) == [out |-> fields, in |-> fields]

WSNOK       == Both(<< <<"msg", "optional">> >>)
WSNContinue == Both(<< <<"msg", "optional">> >>)
WSNErr      == Both(<< <<"reason", "counted">>, <<"extra", "counted">> >>)
WSNLog      == Both(<< <<"level", "u2">>, <<"msg", "counted">> >>)
WSNStop     == Both(<<>>)
WSNGetInfo  == Both(<<>>)
WSNListAgents == Both(<<>>)

\* Its default token has 20 bytes, of which 16 are read.
WSNNOP == [out |-> << <<"token", "pad">> >>, in |-> <<>>]

WSNGetInfoReply ==
    Both(<< <<"pid", "int">>, <<"username", "wide">>, <<"domain", "wide">>,
            <<"logonserver", "wide">>, <<"cpuarch", "str">>, <<"hostname", "wide">>,
            <<"usersid", "str">>, <<"os", "str">>, <<"logonserverip", "str">> >>)

WSNListAgentsReply ==
    Both(<< <<"agentid", "bytes">>, <<"pid", "int">>, <<"username", "wide">>,
            <<"domain", "wide">>, <<"logonserver", "wide">>, <<"cpuarch", "str">>,
            <<"hostname", "wide">>, <<"usersid", "str">> >>)

WSNConnect ==
    Both(<< <<"protocol", "protocol">>, <<"bind", "flag">>, <<"ip", "name">>,
            <<"port", "u2">>, <<"bindtype", "u1">> >>)

WSNSocketData    == Both(<< <<"data", "rest">> >>)
WSNSocketWrapSSL == Both(<<>>)
WSNResolv        == Both(<< <<"ip_or_hostnames", "list">> >>)

WSNServerSocketData ==
    Both(<< <<"connectiontoken", "id">>, <<"clientip", "address">>,
            <<"clientport", "u2">>, <<"data", "rest">> >>)

WSNDirLS    == Both(<< <<"path", "str">> >>)
WSNDirMK    == Both(<< <<"path", "str">> >>)
WSNDirRM    == Both(<< <<"path", "str">> >>)
WSNDirCopy  == Both(<< <<"srcpath", "str">>, <<"dstpath", "str">> >>)
WSNDirMove  == Both(<< <<"srcpath", "str">>, <<"dstpath", "str">> >>)
WSNFileCopy == Both(<< <<"srcpath", "str">>, <<"dstpath", "str">> >>)
WSNFileMove == Both(<< <<"srcpath", "str">>, <<"dstpath", "str">> >>)
WSNFileRM   == Both(<< <<"path", "str">> >>)
WSNFileOpen == Both(<< <<"path", "str">>, <<"mode", "str">> >>)
WSNFileRead == Both(<< <<"size", "u4">>, <<"offset", "u8">> >>)
WSNFileData == Both(<< <<"offset", "u8">>, <<"data", "bytes">> >>)
WSNFileStat == Both(<<>>)

WSNFileEntry ==
    Both(<< <<"root", "str">>, <<"name", "str">>, <<"is_dir", "flag">>,
            <<"size", "u8">>, <<"atime", "u8">>, <<"mtime", "u8">>, <<"ctime", "u8">> >>)

WSNProcessList  == Both(<<>>)
WSNProcessKill  == Both(<< <<"pid", "u8">> >>)
WSNProcessStart == Both(<< <<"command", "str">>, <<"arguments", "str">> >>)
WSNProcessSTD   == Both(<< <<"outtype", "u4">>, <<"data", "str">> >>)

\* A time is written as its whole seconds, and read as a number.
WSNProcessInfo ==
    LET fields(time) ==
            << <<"pid", "u8">>, <<"name", "str">>, <<"window_title", "str">>,
               <<"binpath", "str">>, <<"memory_usage", "u8">>, <<"thread_count", "u8">>,
               <<"start_time", time>>, <<"cpu_time", time>>,
               <<"is_responding", "flag">>, <<"main_window_title", "str">> >>
    IN [out |-> fields("time"), in |-> fields("u8")]

WSNAuthError     == Both(<< <<"status", "str">>, <<"msg", "str">> >>)
WSNGetSessionKey == Both(<<>>)
WSNGetSequenceNo == Both(<<>>)

WSNNTLMAuth ==
    Both(<< <<"username", "str">>, <<"credusage", "int">>, <<"ctxattr", "int">>,
            <<"targetname", "str">> >>)

WSNNTLMAuthReply ==
    Both(<< <<"status", "str">>, <<"ctxattr", "int">>, <<"authdata", "bytes">> >>)

WSNNTLMChallenge ==
    Both(<< <<"authdata", "bytes">>, <<"ctxattr", "int">>, <<"targetname", "str">> >>)

WSNNTLMChallengeReply ==
    Both(<< <<"status", "str">>, <<"ctxattr", "int">>, <<"authdata", "bytes">> >>)

WSNKerberosAuth ==
    Both(<< <<"username", "str">>, <<"credusage", "int">>, <<"ctxattr", "int">>,
            <<"targetname", "str">>, <<"authdata", "bytes">> >>)

WSNKerberosAuthReply ==
    Both(<< <<"status", "str">>, <<"ctxattr", "int">>, <<"authdata", "bytes">> >>)

WSNSessionKeyReply    == Both(<< <<"status", "str">>, <<"sessionkey", "bytes">> >>)
WSNGetSequenceNoReply == Both(<< <<"status", "str">>, <<"encdata", "bytes">> >>)

-----------------------------------------------------------------------------
\* There is no class for DISCONNECT.
type2cmd ==
    [OK |-> WSNOK, NOP |-> WSNNOP, ERR |-> WSNErr, LOG |-> WSNLog,
     CONTINUE |-> WSNContinue, STOP |-> WSNStop, CONNECT |-> WSNConnect,
     SD |-> WSNSocketData, NTLMAUTH |-> WSNNTLMAuth,
     NTLMAUTHREPLY |-> WSNNTLMAuthReply, NTLMCHALL |-> WSNNTLMChallenge,
     NTLMCHALLREPLY |-> WSNNTLMChallengeReply, SESSIONKEY |-> WSNGetSessionKey,
     SESSIONKEYREPLY |-> WSNSessionKeyReply, KERBEROS |-> WSNKerberosAuth,
     KERBEROSREPLY |-> WSNKerberosAuthReply, AUTHERR |-> WSNAuthError,
     SEQUENCE |-> WSNGetSequenceNo, SEQUENCEREPLY |-> WSNGetSequenceNoReply,
     GETINFO |-> WSNGetInfo, GETINFOREPLY |-> WSNGetInfoReply,
     LISTAGENTS |-> WSNListAgents, AGENTINFO |-> WSNListAgentsReply,
     SDSRV |-> WSNServerSocketData, WRAPSSL |-> WSNSocketWrapSSL,
     DIRLS |-> WSNDirLS, DIRMK |-> WSNDirMK, DIRRM |-> WSNDirRM,
     DIRCOPY |-> WSNDirCopy, DIRMOVE |-> WSNDirMove, FILEREAD |-> WSNFileRead,
     FILECOPY |-> WSNFileCopy, FILEMOVE |-> WSNFileMove, FILEDATA |-> WSNFileData,
     FILEENTRY |-> WSNFileEntry, FILEOPEN |-> WSNFileOpen, FILERM |-> WSNFileRM,
     FILESTAT |-> WSNFileStat, RESOLV |-> WSNResolv, PROCLIST |-> WSNProcessList,
     PROCKILL |-> WSNProcessKill, PROCINFO |-> WSNProcessInfo,
     PROCSTART |-> WSNProcessStart, PROCSTD |-> WSNProcessSTD]
=============================================================================
