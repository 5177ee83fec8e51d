-------------------------------- MODULE MCRtmp --------------------------------
EXTENDS Rtmp

\* Values of every type, the ECMA array last in its message.
MCInfos ==
  {Null, Arr(<<<<"version", Str("5,0,17")>>>>),
   Obj(<<<<"code", Str("ok")>>, <<"at", Date(5)>>, <<"text", Long("long")>>>>),
   Obj(<<<<"list", SArr(<<Xml("xml"), Undefined, Num(2)>>)>>,
         <<"inner", Obj(<<<<"no", Bool(FALSE)>>>>)>>, <<"last", Num(3)>>>>),
   Typed("class", <<<<"a", Null>>>>)}

MCCodes == {"NetStream.Play.Start", "NetStream.Publish.Start",
            "NetStream.Publish.BadName", "NetStream.Play.Reset",
            "NetStream.Play.StreamNotFound"}

\* A stream of one byte in the basic header, of two and of three.
MCCids == {5, 64, 400}
===============================================================================
